---- MODULE Spec2Model ----
(***************************************************************************)
(* USync: receiver-driven fountain-code file transfer.                     *)
(* State-machine model of the transport engine (src/src/engine), the       *)
(* ticket verification it relies on and the pacing timer.                  *)
(*                                                                         *)
(* The module holds several specifications over one set of variables:      *)
(*   SpecReporter  the Reporter of the receiving socket and its 2 s ticker *)
(*   SpecDecoder   the decoder actors and the routing of data frames       *)
(*   SpecSender    the sending socket, its encoder actors and their timers *)
(*   SpecBus       the message bus: register, send, recv, drop             *)
(*   SpecTimer     a SenderTimer polled at arbitrary instants              *)
(*   SpecClock     the tasks of the timer's clock test                     *)
(*   SpecPlan      the planner's split of a file into chunks               *)
(*   SpecCodec     a TicketPacket built and parsed                         *)
(*   SpecTransfer  the local transfer: both sockets over a paired socket   *)
(*   SpecRaw       parse_packet on the bytes of a datagram                 *)
(* Each specification moves only its own group of variables.               *)
(***************************************************************************)
EXTENDS Integers, Naturals, Sequences, FiniteSets, TLC

(***************************************************************************)
(* Bounds of the model                                                     *)
(***************************************************************************)
\* number of Reporter.update calls explored in one behaviour
MaxUpdates == 3
\* number of data frames routed to decoders in one behaviour
MaxFrames == 3
\* saturation value of the per-chunk count of ticker periods
SinceCap == 5
\* number of datagrams the sending socket receives in one behaviour
MaxDatagrams == 2
\* number of Bus.register calls in one behaviour
MaxRegisters == 3
\* number of BusInterface.send calls in one behaviour
MaxBusSends == 2
\* the controller task runs up to this many microseconds after the instant it
\* slept until
MaxLate == 1
\* number of calls on a TicketPacket that are chosen freely
MaxFreeCalls == 2
\* number of further chunks set on a TicketPacket, one call each
MaxMoreChunks == 96
\* the planned files have up to this many full chunks
MaxFullChunks == 4
\* number of SenderTimer::set_rate calls in one behaviour
MaxRateCalls == 1
\* the instant, in microseconds, after which a timer is no longer watched
MaxClock == 41000000
\* the sender's clock stops advancing after this many seconds
MaxTime == 25
\* chunks of the small local transfers
SmallChunks == 3
\* chunks, and concurrency bound, of the large local transfer
ManyChunks == 96
\* frames the timer of an encoder permits within one ticker period
MaxPermits == 2
\* number of frames written into the body of a datagram parsed from bytes
MaxRawFrames == 2

\* chunk ids used by the receiver side
ChunkIds == {1, 2}
\* inner offsets of the reports a decoder may send
ReportOffsets == {3, 5, 10, 50000}

(***************************************************************************)
(* Generic helpers                                                         *)
(***************************************************************************)
MaxNat(a, b) == IF a < b THEN b ELSE a
MinNat(a, b) == IF a < b THEN a ELSE b

Restrict(f, S) == [x \in S |-> f[x]]

(***************************************************************************)
(* engine/mod.rs: ReceivingChunkReport and its order                       *)
(***************************************************************************)
WantNext(n) == [tag |-> "WantNext", n |-> n]
Finished(n) == [tag |-> "Finished", n |-> n]

ReceivingChunkReport == {WantNext(n) : n \in ReportOffsets} \cup {Finished(n) : n \in ReportOffsets}

NatCmp(a, b) == IF a < b THEN "Less" ELSE IF a = b THEN "Equal" ELSE "Greater"

\* a plausible slip: the two mixed arms exchanged
cmp_mixed_swapped(self, other) ==
    CASE self.tag = "Finished" /\ other.tag = "Finished" -> NatCmp(self.n, other.n)
      [] self.tag = "Finished" /\ other.tag = "WantNext" -> "Less"
      [] self.tag = "WantNext" /\ other.tag = "Finished" -> "Greater"
      [] self.tag = "WantNext" /\ other.tag = "WantNext" -> NatCmp(self.n, other.n)

\* impl Ord for ReceivingChunkReport
cmp(self, other) ==
    CASE self.tag = "Finished" /\ other.tag = "Finished" -> NatCmp(self.n, other.n)
      [] self.tag = "Finished" /\ other.tag = "WantNext" -> "Greater"
      [] self.tag = "WantNext" /\ other.tag = "Finished" -> "Less"
      [] self.tag = "WantNext" /\ other.tag = "WantNext" -> NatCmp(self.n, other.n)

\* util::Compare::cmax on reports: *self = other when *self < other
cmax(self, other) == IF cmp(self, other) = "Less" THEN other ELSE self

(***************************************************************************)
(* engine/receiving.rs: Reporter                                           *)
(***************************************************************************)
VARIABLES
    activate_data,   \* Reporter.activate_data : chunk_id -> report (a partial map)
    exiting_data,    \* Reporter.exiting_data  : sequence of partial maps, front first
    rs_running,      \* the receiving socket actor is still in its loop
    tick_ticket,     \* the ticket built by the latest ticker period, NoTicket if none
    tick_sent,       \* whether that ticket was handed to the socket successfully
    received,        \* history: reports received per chunk since it last left active
    since,           \* history: ticker periods since the chunk's last update (saturating)
    promoted,        \* history: the chunk was moved to exiting since its last update
    updates          \* history: number of update calls so far

reporterVars == <<activate_data, exiting_data, rs_running, tick_ticket, tick_sent,
                  received, since, promoted, updates>>

(***************************************************************************)
(* engine/decoding.rs: per-chunk decoder actors                            *)
(***************************************************************************)
VARIABLES
    dec_pc,          \* position of the decoder task of a chunk
    dec_registered,  \* FrameDecoder(chunk_id) is in the bus registry
    dec_queue,       \* the queue of FrameDecoder(chunk_id): parsed data frames
    dec_decoder,     \* the FrameReceiver state: config, symbols absorbed, expected_frame_id
    rsock_registered,\* ReceiverSocket is in the bus registry
    rs_inbox,        \* the queue of ReceiverSocket: (chunk_id, report) messages
    dec_sent,        \* history: reports the decoder handed to bus send, in order
    dec_taken,       \* history: frames the decoder took from its queue, in order
    dec_delivered,   \* history: number of frames routed to decoders so far
    dec_routed       \* history: the data frame routed last and its chunk_id

decoderVars == <<dec_pc, dec_registered, dec_queue, dec_decoder, rsock_registered,
                 rs_inbox, dec_sent, dec_taken, dec_delivered, dec_routed>>

(***************************************************************************)
(* engine/sending.rs, engine/encoding.rs, engine/bus_flume.rs: the sender  *)
(***************************************************************************)
VARIABLES
    now,             \* Instant::now(), in microseconds since the sender started
    ss_running,      \* the sending socket actor is still in its loop
    bus_peers,       \* Bus.peers of the sender: the registered addresses
    ss_queue,        \* the queue of SenderSocket: (peer, data frame) messages
    enc,             \* the encoder actor of an address FrameEncoder(chunk_id, peer)
    enc_queue,       \* the queue of FrameEncoder(chunk_id, peer): sending orders
    datagrams,       \* history: number of datagrams the sending socket received
    emitted,         \* history: per address, the frames its encoders handed out
    asked,           \* history: per address, the GetChunk frames of the tickets handled
    ev               \* history: the step taken last

senderVars ==
    <<now, ss_running, bus_peers, ss_queue, enc, enc_queue, datagrams, emitted, asked,
      ev>>

(***************************************************************************)
(* engine/bus_flume.rs: Bus and BusInterface on their own                  *)
(***************************************************************************)
VARIABLES
    peers,           \* Bus.peers: address -> the channel its Sender feeds, or NoChan
    chan_queue,      \* per channel, the messages sent and not yet received
    interfaces,      \* the BusInterface values not yet dropped
    channels,        \* number of channels created by register so far
    bus_sends,       \* history: number of send calls so far
    bus_ev           \* history: the bus operation done last

busVars == <<peers, chan_queue, interfaces, channels, bus_sends, bus_ev>>

(***************************************************************************)
(* util/timer.rs: a SenderTimer on its own, and the tasks of its clock test*)
(***************************************************************************)
VARIABLES
    tmr,             \* the SenderTimer
    tmr_state,       \* "none" before SenderTimer::new, "live", "closed" after Close
    tmr_now,         \* Instant::now(), in microseconds since PROGRAM_START_TIME
    tmr_permits,     \* history: the sum of the x of all Send(x) returned so far
    tmr_calls,       \* history: the set_rate calls made so far
    tmr_wakes,       \* the instants the sleepers spawned by poll wait for
    tmr_woken,       \* the task that owns the timer has been woken and not yet polled
    sent_times,      \* the clock test's vector of output times, in milliseconds
    tmr_ev           \* history: the timer operation done last

timerVars == <<tmr, tmr_state, tmr_now, tmr_permits, tmr_calls, tmr_wakes, tmr_woken,
               sent_times, tmr_ev>>

(***************************************************************************)
(* plan.rs: the planner                                                    *)
(***************************************************************************)
VARIABLES
    file_length,     \* the argument of make_plan, 0 before the call
    plan,            \* the pairs (offset, length) the iterator yields, in order
    plan_taken       \* the number of pairs the caller has taken from the iterator

planVars == <<file_length, plan, plan_taken>>

(***************************************************************************)
(* protocol/wire: a TicketPacket built and parsed                          *)
(***************************************************************************)
VARIABLES
    ticket,          \* the TicketPacket under construction
    ticket_calls,    \* history: the set_rate_limit and set_get_chunk calls so far
    wire,            \* the built packet, once build has run
    parsed_packet    \* the result of parse_packet, once it has run

codecVars == <<ticket, ticket_calls, wire, parsed_packet>>

(***************************************************************************)
(* examples/local_transfer.rs: both sockets on one bus and a paired socket *)
(***************************************************************************)
VARIABLES
    xf_conf,         \* CHUNKS and CONCURRENCY of the transfer, NoTransfer before main
    xf_sem,          \* the permits the semaphore has left
    xf_pc,           \* position of the task of a chunk and of its decoder
    xf_registered,   \* the chunk ids whose FrameDecoder address is in the bus registry
    xf_decoder,      \* the FrameReceiver state of a chunk's decoder
    xf_queue,        \* the queue of FrameDecoder(chunk_id): parsed data frames
    xf_returned,     \* what the JoinHandle of a chunk's decoder yielded
    xf_reports,      \* the queue of ReceiverSocket: (chunk_id, report) messages
    xf_active,       \* Reporter.activate_data of the receiving socket
    xf_exiting,      \* Reporter.exiting_data of the receiving socket
    xf_to_sender,    \* the paired socket, receiver to sender: built tickets
    xf_enc,          \* the encoder actor of a chunk
    xf_to_receiver,  \* SenderSocket's queue and the paired socket: data frames
    xf_ev            \* history: the step taken last, and whether it began stalled

xferVars == <<xf_conf, xf_sem, xf_pc, xf_registered, xf_decoder, xf_queue, xf_returned,
              xf_reports, xf_active, xf_exiting, xf_to_sender, xf_enc, xf_to_receiver,
              xf_ev>>

(***************************************************************************)
(* protocol/wire/encoding.rs: parse_packet on the bytes of a datagram      *)
(***************************************************************************)
VARIABLES
    raw_body,        \* the bytes of the body of the datagram being put together
    raw_crafted,     \* history: the frames written into the body, in order
    raw_result       \* the outcome of parse_packet, once it has run

rawVars == <<raw_body, raw_crafted, raw_result>>

vars == <<reporterVars, decoderVars, senderVars, busVars, timerVars, planVars, codecVars,
          xferVars, rawVars>>

notReporter == <<decoderVars, senderVars, busVars, timerVars, planVars, codecVars, xferVars, rawVars>>
notDecoder == <<reporterVars, senderVars, busVars, timerVars, planVars, codecVars, xferVars, rawVars>>
notSender == <<reporterVars, decoderVars, busVars, timerVars, planVars, codecVars, xferVars, rawVars>>
notBus == <<reporterVars, decoderVars, senderVars, timerVars, planVars, codecVars, xferVars, rawVars>>
notTimer == <<reporterVars, decoderVars, senderVars, busVars, planVars, codecVars, xferVars, rawVars>>
notPlan == <<reporterVars, decoderVars, senderVars, busVars, timerVars, codecVars, xferVars, rawVars>>
notTransfer == <<reporterVars, decoderVars, senderVars, busVars, timerVars, planVars,
                codecVars, rawVars>>
notRaw == <<reporterVars, decoderVars, senderVars, busVars, timerVars, planVars, codecVars,
           xferVars>>
notCodec == <<reporterVars, decoderVars, senderVars, busVars, timerVars, planVars, xferVars, rawVars>>

NoTicket == [none |-> TRUE]

EmptyMap == [x \in {} |-> 0]

\* a plausible slip: only the active map is looked at
is_empty_active_only(active, exiting) ==
    DOMAIN active = {}

\* Reporter::is_empty
is_empty(active, exiting) ==
    /\ DOMAIN active = {}
    /\ \A i \in 1..Len(exiting) : DOMAIN exiting[i] = {}

\* Reporter::update: entry(chunk_id).and_modify(cmax).or_insert(report)
update(active, chunk_id, report) ==
    IF chunk_id \in DOMAIN active
    THEN [active EXCEPT ![chunk_id] = cmax(@, report)]
    ELSE [c \in DOMAIN active \cup {chunk_id} |->
            IF c = chunk_id THEN report ELSE active[c]]

\* a plausible slip: '>' instead of '>=' keeps a fourth generation
exiting_trim_keep4(exiting) ==
    IF Len(exiting) > 3 THEN SubSeq(exiting, 1, Len(exiting) - 1) ELSE exiting

\* Reporter::generate, first statement: pop_back when three generations are held
exiting_trim(exiting) ==
    IF Len(exiting) >= 3 THEN SubSeq(exiting, 1, Len(exiting) - 1) ELSE exiting

\* the extract_if predicate: *v >= Finished(0)
is_finished(v) == cmp(v, Finished(0)) # "Less"

\* TicketPacket::set_get_chunk for one report, with the window policy of generate
window_frame(chunk_id, result) ==
    IF result.tag = "WantNext"
    THEN [chunk_id |-> chunk_id, next_receive_offset |-> result.n,
          receive_window_frames |-> MaxNat(8192, result.n \div 5)]
    ELSE [chunk_id |-> chunk_id, next_receive_offset |-> result.n,
          receive_window_frames |-> 0]

\* folding one map into the packet: HashMap::insert replaces an earlier frame
set_get_chunk_all(get_chunk, map) ==
    [c \in DOMAIN get_chunk \cup DOMAIN map |->
        IF c \in DOMAIN map THEN window_frame(c, map[c]) ELSE get_chunk[c]]

RECURSIVE fold_maps(_, _)
fold_maps(get_chunk, maps) ==
    IF maps = <<>> THEN get_chunk
    ELSE fold_maps(set_get_chunk_all(get_chunk, Head(maps)), Tail(maps))

\* Reporter::generate: the new active, the new exiting and the ticket
generate(active, exiting, rate_kbps) ==
    LET fin      == {c \in DOMAIN active : is_finished(active[c])}
        active2  == Restrict(active, DOMAIN active \ fin)
        exiting2 == <<Restrict(active, fin)>> \o exiting_trim(exiting)
    IN  [active  |-> active2,
         exiting |-> exiting2,
         ticket  |-> [rate_limit |-> rate_kbps,
                      get_chunk  |-> fold_maps(EmptyMap, <<active2>> \o exiting2)]]

InitReporter ==
    /\ activate_data = EmptyMap
    /\ exiting_data = <<>>
    /\ rs_running = TRUE
    /\ tick_ticket = NoTicket
    /\ tick_sent = FALSE
    /\ received = [c \in ChunkIds |-> {}]
    /\ since = [c \in ChunkIds |-> SinceCap]
    /\ promoted = [c \in ChunkIds |-> FALSE]
    /\ updates = 0

\* ReceivingSocket::run, the bus branch: a report of a decoder reaches the reporter
ReceiverReport(chunk_id, report) ==
    /\ rs_running
    /\ updates < MaxUpdates
    /\ activate_data' = update(activate_data, chunk_id, report)
    /\ received' = [received EXCEPT ![chunk_id] = @ \cup {report}]
    /\ since' = [since EXCEPT ![chunk_id] = 0]
    /\ promoted' = [promoted EXCEPT ![chunk_id] = FALSE]
    /\ updates' = updates + 1
    /\ UNCHANGED <<exiting_data, rs_running, tick_ticket, tick_sent>>
    /\ UNCHANGED notReporter

\* ReceivingSocket::run, the ticker branch
ReceiverTick(send_ok) ==
    /\ rs_running
    /\ since' = [c \in ChunkIds |-> MinNat(SinceCap, since[c] + 1)]
    /\ IF is_empty(activate_data, exiting_data)
       THEN /\ tick_ticket' = NoTicket
            /\ tick_sent' = FALSE
            /\ UNCHANGED <<activate_data, exiting_data, rs_running, received, promoted>>
       ELSE LET g == generate(activate_data, exiting_data, 40960)
                moved == DOMAIN g.exiting[1]
            IN  /\ activate_data' = g.active
                /\ exiting_data' = g.exiting
                /\ tick_ticket' = g.ticket
                /\ tick_sent' = send_ok
                /\ rs_running' = send_ok
                /\ received' = [c \in ChunkIds |-> IF c \in moved THEN {} ELSE received[c]]
                /\ promoted' = [c \in ChunkIds |-> promoted[c] \/ c \in moved]
    /\ UNCHANGED updates
    /\ UNCHANGED notReporter

NextReporter ==
    \/ \E c \in ChunkIds, r \in ReceivingChunkReport : ReceiverReport(c, r)
    \/ \E ok \in BOOLEAN : ReceiverTick(ok)


(***************************************************************************)
(* protocol/coding: the FrameReceiver contract                             *)
(***************************************************************************)
\* frame_offset values of the data frames on the wire
FrameOffsets == {0, 7}
\* transmission_info blobs: one the code can configure a decoder from, one it cannot
TransmissionInfos == {"info_ok", "info_malformed"}

DataFrames == [frame_offset : FrameOffsets, transmission_info : TransmissionInfos]

\* number of distinct symbols after which decode() yields the plaintext:
\* chunk 1 fits in one symbol, the other chunks need two
SymbolsNeeded(chunk_id) == IF chunk_id = 1 THEN 1 ELSE 2

NoDecoder == [none |-> TRUE]

\* FrameReceiver::try_init: None when the transmission info is malformed
try_init(chunk_id, transmission_info) ==
    IF transmission_info = "info_ok"
    THEN [config |-> transmission_info, need |-> SymbolsNeeded(chunk_id),
          symbols |-> {}, expected_frame_id |-> 0]
    ELSE NoDecoder

\* FrameReceiver::update: expected_frame_id = max(expected_frame_id, frame_id + 1),
\* then the symbol goes to the fountain decoder
decoder_update(decoder, frame_id) ==
    [decoder EXCEPT !.expected_frame_id = MaxNat(@, frame_id + 1),
                    !.symbols = @ \cup {frame_id}]

\* the plaintext is returned once enough distinct symbols are absorbed
decoder_complete(decoder) == Cardinality(decoder.symbols) >= decoder.need

\* a plausible slip: the '?' after try_init missing, a default decoder is used
first_frame_unchecked(chunk_id, first_chunk) ==
    LET d0 == try_init(chunk_id, "info_ok")
        d1 == decoder_update(d0, first_chunk.frame_offset)
    IN  IF decoder_complete(d1)
        THEN [pc |-> "completed", decoder |-> d1]
        ELSE [pc |-> "decoding", decoder |-> d1]

\* ChunkDecoder::run, from the first recv to the loop
first_frame(chunk_id, first_chunk) ==
    LET d0 == try_init(chunk_id, first_chunk.transmission_info)
        d1 == decoder_update(d0, first_chunk.frame_offset)
    IN  IF d0 = NoDecoder
        THEN [pc |-> "failed", decoder |-> NoDecoder]
        ELSE IF decoder_complete(d1)
             THEN [pc |-> "completed", decoder |-> d1]
             ELSE [pc |-> "decoding", decoder |-> d1]

\* no data frame has been routed yet
NoRoute == [chunk_id |-> 0]

InitDecoder ==
    /\ dec_pc = [c \in ChunkIds |-> "none"]
    /\ dec_registered = [c \in ChunkIds |-> FALSE]
    /\ dec_queue = [c \in ChunkIds |-> <<>>]
    /\ dec_decoder = [c \in ChunkIds |-> NoDecoder]
    /\ rsock_registered = TRUE
    /\ rs_inbox = <<>>
    /\ dec_sent = [c \in ChunkIds |-> <<>>]
    /\ dec_taken = [c \in ChunkIds |-> <<>>]
    /\ dec_delivered = 0
    /\ dec_routed = NoRoute

\* BusInterface::send to ReceiverSocket followed by .ok(): a failure is ignored
SendReport(c, report) ==
    /\ dec_sent' = [dec_sent EXCEPT ![c] = Append(@, report)]
    /\ rs_inbox' = IF rsock_registered THEN Append(rs_inbox, <<c, report>>) ELSE rs_inbox

\* decoding::spawn: register FrameDecoder(chunk_id), create the task
DecoderSpawn(c) ==
    /\ dec_pc[c] = "none"
    /\ dec_pc' = [dec_pc EXCEPT ![c] = "spawned"]
    /\ dec_registered' = [dec_registered EXCEPT ![c] = TRUE]
    /\ UNCHANGED <<dec_queue, dec_decoder, rsock_registered, rs_inbox, dec_sent,
                   dec_taken, dec_delivered>>
    /\ UNCHANGED dec_routed
    /\ UNCHANGED notDecoder

\* ChunkDecoder::run up to the first recv: the initial WantNext(0)
DecoderStart(c) ==
    /\ dec_pc[c] = "spawned"
    /\ SendReport(c, WantNext(0))
    /\ dec_pc' = [dec_pc EXCEPT ![c] = "await_first"]
    /\ UNCHANGED <<dec_registered, dec_queue, dec_decoder, rsock_registered,
                   dec_taken, dec_delivered>>
    /\ UNCHANGED dec_routed
    /\ UNCHANGED notDecoder

\* a plausible slip: the frame is queued for a decoder that is not there
RouteDataFrame_keep(c, frame) ==
    /\ dec_delivered < MaxFrames
    /\ rsock_registered
    /\ dec_delivered' = dec_delivered + 1
    /\ dec_queue' = [dec_queue EXCEPT ![c] = Append(@, frame)]
    /\ dec_routed' = [chunk_id |-> c, frame |-> frame]
    /\ UNCHANGED <<dec_pc, dec_registered, dec_decoder, rsock_registered, rs_inbox,
                   dec_sent, dec_taken>>
    /\ UNCHANGED notDecoder

\* ReceivingSocket::run, the datagram branch: a data frame is routed to
\* FrameDecoder(chunk_id); without a registered decoder it is dropped
RouteDataFrame(c, frame) ==
    /\ dec_delivered < MaxFrames
    /\ rsock_registered
    /\ dec_delivered' = dec_delivered + 1
    /\ dec_queue' = IF dec_registered[c]
                    THEN [dec_queue EXCEPT ![c] = Append(@, frame)]
                    ELSE dec_queue
    /\ dec_routed' = [chunk_id |-> c, frame |-> frame]
    /\ UNCHANGED <<dec_pc, dec_registered, dec_decoder, rsock_registered, rs_inbox,
                   dec_sent, dec_taken>>
    /\ UNCHANGED notDecoder

\* ChunkDecoder::run, the first frame: try_init, then update without any report
DecoderFirstFrame(c) ==
    /\ dec_pc[c] = "await_first"
    /\ dec_queue[c] # <<>>
    /\ LET r == first_frame(c, Head(dec_queue[c]))
           ended == r.pc \in {"failed", "completed"}
       IN  /\ dec_pc' = [dec_pc EXCEPT ![c] = r.pc]
           /\ dec_decoder' = [dec_decoder EXCEPT ![c] = r.decoder]
           /\ dec_taken' = [dec_taken EXCEPT ![c] = Append(@, Head(dec_queue[c]))]
           /\ dec_queue' = [dec_queue EXCEPT ![c] = IF ended THEN <<>> ELSE Tail(@)]
           /\ dec_registered' = [dec_registered EXCEPT ![c] = IF ended THEN FALSE ELSE @]
    /\ UNCHANGED <<rsock_registered, rs_inbox, dec_sent, dec_delivered>>
    /\ UNCHANGED dec_routed
    /\ UNCHANGED notDecoder

\* ChunkDecoder::run, one turn of the loop
DecoderNextFrame(c) ==
    /\ dec_pc[c] = "decoding"
    /\ dec_queue[c] # <<>>
    /\ LET frame == Head(dec_queue[c])
           d1 == decoder_update(dec_decoder[c], frame.frame_offset)
       IN  /\ dec_decoder' = [dec_decoder EXCEPT ![c] = d1]
           /\ dec_taken' = [dec_taken EXCEPT ![c] = Append(@, frame)]
           /\ IF decoder_complete(d1)
              THEN /\ SendReport(c, Finished(d1.expected_frame_id))
                   /\ dec_pc' = [dec_pc EXCEPT ![c] = "completed"]
                   /\ dec_queue' = [dec_queue EXCEPT ![c] = <<>>]
                   /\ dec_registered' = [dec_registered EXCEPT ![c] = FALSE]
              ELSE /\ SendReport(c, WantNext(d1.expected_frame_id))
                   /\ dec_queue' = [dec_queue EXCEPT ![c] = Tail(@)]
                   /\ UNCHANGED <<dec_pc, dec_registered>>
    /\ UNCHANGED <<rsock_registered, dec_delivered>>
    /\ UNCHANGED dec_routed
    /\ UNCHANGED notDecoder

\* the receiving socket actor leaves its loop: its interface is dropped
ReceiverSocketExit ==
    /\ rsock_registered
    /\ rsock_registered' = FALSE
    /\ rs_inbox' = <<>>
    /\ UNCHANGED <<dec_pc, dec_registered, dec_queue, dec_decoder, dec_sent,
                   dec_taken, dec_delivered>>
    /\ UNCHANGED dec_routed
    /\ UNCHANGED notDecoder

NextDecoder ==
    \/ \E c \in ChunkIds : DecoderSpawn(c)
    \/ \E c \in ChunkIds : DecoderStart(c)
    \/ \E c \in ChunkIds, f \in DataFrames : RouteDataFrame(c, f)
    \/ \E c \in ChunkIds : DecoderFirstFrame(c)
    \/ \E c \in ChunkIds : DecoderNextFrame(c)
    \/ ReceiverSocketExit


(***************************************************************************)
(* u32 arithmetic of the release build (the binaries refuse to run as a    *)
(* debug build): a u32 is the pair <<high half, low half>> of 16-bit words *)
(* and addition wraps modulo 2^32                                          *)
(***************************************************************************)
Half == 256 * 256

U32(n) == <<n \div Half, n % Half>>

U32_MAX == <<Half - 1, Half - 1>>

U32Lt(a, b) == a[1] < b[1] \/ (a[1] = b[1] /\ a[2] < b[2])

U32Leq(a, b) == a = b \/ U32Lt(a, b)

\* the carry out of the 32-bit sum
U32Carry(a, b) == (a[1] + b[1] + ((a[2] + b[2]) \div Half)) \div Half

\* u32 + u32 with overflow checks off
U32Add(a, b) ==
    <<(a[1] + b[1] + ((a[2] + b[2]) \div Half)) % Half, (a[2] + b[2]) % Half>>

\* a plausible slip: the new value is stored without comparing
U32cmax_assign(self, other) == other

\* util::Compare::cmax on u32
U32cmax(self, other) == IF U32Lt(self, other) THEN other ELSE self

(***************************************************************************)
(* The sender's surroundings                                               *)
(***************************************************************************)
\* peers that send datagrams to the sender
Peers == {"peer1"}
\* chunk ids named by tickets
TicketChunks == {1, 2, 3}
\* CHUNK_INDEX of the server: chunk 1 with a range that maps, chunk 2 with
\* a range mmap_segment rejects; chunk 3 is not in the index
ChunkIndex == [c \in {1, 2} |-> IF c = 1 THEN "mappable" ELSE "unmappable"]

FrameEncoder(chunk_id, peer) == <<"FrameEncoder", chunk_id, peer>>
SenderSocket == <<"SenderSocket">>
EncoderAddrs == {FrameEncoder(c, p) : c \in TicketChunks, p \in Peers}

\* public keys: the keyring's allow-list holds the client's key only
Keys == {"key_client", "key_stranger"}
public_key_rings == {"key_client"}

(***************************************************************************)
(* protocol/wire: datagrams as the parser sees them                        *)
(***************************************************************************)
GetChunk(c, next, window) ==
    [frame_type |-> "GetChunk", chunk_id |-> c, next_receive_offset |-> next,
     receive_window_frames |-> window]
RateLimit(kbps) == [frame_type |-> "RateLimit", desired_max_kbps |-> kbps]

\* the GetChunk frames for the chunk the server can encode: next offsets 0
\* and 1, windows 0 and 1, and the largest window
GetChunkFrames ==
    {GetChunk(1, n, w) : n \in {U32(0), U32(1)}, w \in {U32(0), U32(1)}}
    \cup {GetChunk(1, U32(1), U32_MAX)}

\* the frames tickets are built from
TicketFrames ==
    GetChunkFrames
    \cup {GetChunk(2, U32(0), U32(1)), GetChunk(3, U32(0), U32(1))}
    \cup {RateLimit(0), RateLimit(40960)}

\* the frame sequences of the tickets a keyring owner sends: one frame, the
\* receiver's RateLimit followed by a GetChunk, a RateLimit after the
\* GetChunk, one chunk named twice, and two chunks in one ticket
TicketBodies ==
    {<<f>> : f \in TicketFrames}
    \cup {<<RateLimit(40960), GetChunk(1, U32(0), U32(1))>>,
          <<RateLimit(40960), GetChunk(1, U32(1), U32(0))>>,
          <<GetChunk(1, U32(0), U32(1)), RateLimit(40960)>>,
          <<GetChunk(1, U32(0), U32(1)), GetChunk(1, U32(1), U32(1))>>,
          <<GetChunk(1, U32(1), U32(1)), GetChunk(1, U32(0), U32(0))>>,
          <<GetChunk(1, U32(0), U32(1)), GetChunk(2, U32(0), U32(1))>>,
          <<GetChunk(1, U32(0), U32(1)), GetChunk(3, U32(0), U32(1))>>}

\* the frame sequences of the datagrams of anybody else
ForgedBodies ==
    {<<GetChunk(1, U32(0), U32(1))>>, <<GetChunk(1, U32(0), U32(0))>>}

\* a Ticket carries the signer's public key and a signature made by some key
\* (or by none); a Data packet carries a CRC that matches or not
Datagrams ==
    [packet_type : {"Ticket"}, pub_key : {"key_client"}, signed_by : {"key_client"},
     crc_ok : {TRUE}, frames : TicketBodies, peer : Peers]
    \cup
    [packet_type : {"Ticket"}, pub_key : {"key_stranger"}, signed_by : {"key_stranger"},
     crc_ok : {TRUE}, frames : ForgedBodies, peer : Peers]
    \cup
    [packet_type : {"Ticket"}, pub_key : {"key_client"}, signed_by : {"key_stranger", "nobody"},
     crc_ok : {TRUE}, frames : ForgedBodies, peer : Peers]
    \cup
    [packet_type : {"Data"}, pub_key : {"none"}, signed_by : {"nobody"},
     crc_ok : BOOLEAN, frames : ForgedBodies, peer : Peers]

\* KeyRing::parse_and_check_key
parse_and_check_key(pub_key) ==
    IF pub_key \notin public_key_rings THEN "UnknownPublicKey" ELSE "Ok"

\* a plausible slip: the allow-list is not consulted
verify_ed25519_any_key(pub_key, signed_by) ==
    IF signed_by # pub_key THEN "IncorrectSign" ELSE "Ok"

\* KeyRing::verify_ed25519: the key is on the allow-list and the signature
\* was made by that key over this packet
verify_ed25519(pub_key, signed_by) ==
    IF parse_and_check_key(pub_key) # "Ok" THEN parse_and_check_key(pub_key)
    ELSE IF signed_by # pub_key THEN "IncorrectSign" ELSE "Ok"

\* KeyRing::verify_crc64
verify_crc64(crc_ok) == IF crc_ok THEN "Ok" ELSE "CorruptContent"

\* KeyRing::verify, by the verification data the packet type builds
verify(dgram) ==
    IF dgram.packet_type = "Data" THEN verify_crc64(dgram.crc_ok)
    ELSE verify_ed25519(dgram.pub_key, dgram.signed_by)

\* parse_packet: the parsed packet, or an error
parse_packet(dgram) ==
    IF verify(dgram) # "Ok" THEN [ok |-> FALSE, err |-> verify(dgram)]
    ELSE [ok |-> TRUE, specific_packet_header |-> dgram.packet_type, frames |-> dgram.frames]

(***************************************************************************)
(* engine/sending.rs: build_sending_order                                  *)
(***************************************************************************)
MTU == 1490

\* Option<Duration>
NoInterval == [some |-> FALSE, interval |-> 0]
SomeInterval(i) == [some |-> TRUE, interval |-> i]

\* Duration::from_millis(8).mul_f32(MTU + 20).div_f64(rate), in microseconds;
\* the division by zero panics
rate_to_interval(rate_limit) ==
    IF rate_limit = 0 THEN [panic |-> TRUE]
    ELSE [panic |-> FALSE, interval |-> (8000 * (MTU + 20)) \div rate_limit]

\* the SendingOrder of one GetChunk frame
order_of(header, sending_interval, time_stamp) ==
    [chunk_id |-> header.chunk_id,
     sending_interval |-> sending_interval,
     time_stamp |-> time_stamp,
     offset_next |-> header.next_receive_offset,
     offset_no_more_than |-> U32Add(header.next_receive_offset, header.receive_window_frames),
     close_now |-> (header.receive_window_frames = U32(0))]

\* the loop over packet.frames: orders is the HashMap, sending_interval the
\* interval of the RateLimit frames seen so far
RECURSIVE fold_frames(_, _, _, _, _)
fold_frames(frames, orders, sending_interval, socket_addr, time_stamp) ==
    IF frames = <<>> THEN [panic |-> FALSE, orders |-> orders]
    ELSE LET frame == Head(frames) IN
         IF frame.frame_type = "GetChunk"
         THEN LET addr == FrameEncoder(frame.chunk_id, socket_addr)
                  order == order_of(frame, sending_interval, time_stamp)
              IN  fold_frames(Tail(frames),
                              [a \in DOMAIN orders \cup {addr} |->
                                   IF a = addr THEN order ELSE orders[a]],
                              sending_interval, socket_addr, time_stamp)
         ELSE IF frame.frame_type = "RateLimit"
         THEN LET r == rate_to_interval(frame.desired_max_kbps) IN
              IF r.panic THEN [panic |-> TRUE, orders |-> EmptyMap]
              ELSE fold_frames(Tail(frames), orders, SomeInterval(r.interval), socket_addr, time_stamp)
         ELSE fold_frames(Tail(frames), orders, sending_interval, socket_addr, time_stamp)

\* build_sending_order: None unless the packet is a Ticket
build_sending_order(packet, socket_addr, time_stamp) ==
    IF packet.specific_packet_header # "Ticket"
    THEN [some |-> FALSE, panic |-> FALSE, orders |-> EmptyMap]
    ELSE LET r == fold_frames(packet.frames, EmptyMap, NoInterval, socket_addr, time_stamp)
         IN  [some |-> TRUE, panic |-> r.panic, orders |-> r.orders]


(***************************************************************************)
(* util/timer.rs: SenderTimer, times in microseconds                       *)
(***************************************************************************)
Second == 1000 * 1000
STOP_AFTER == 10 * Second
EXIT_AFTER == 20 * Second
MAX_BURST == 8
\* Duration::from_millis(20), the interval of an order without RateLimit
DefaultInterval == 20 * 1000
\* the clock is observed at multiples of this step
TimeStep == STOP_AFTER \div 2

\* SenderTimer::new at time t
timer_new(interval, t) ==
    [interval |-> interval, sleep_after |-> t + STOP_AFTER,
     exit_after |-> t + EXIT_AFTER, last_send |-> t]

\* a plausible slip: a new interval leaves last_send where it was
set_rate_keep_last_send(timer, timestamp, new_interval) ==
    LET t1 == IF new_interval.some
              THEN [timer EXCEPT !.interval = new_interval.interval]
              ELSE timer
    IN  [t1 EXCEPT !.sleep_after = MaxNat(timer.sleep_after, timestamp + STOP_AFTER),
                   !.exit_after = MaxNat(timer.exit_after, timestamp + EXIT_AFTER)]

\* a plausible slip: an order without an interval puts the default back
set_rate_default_interval(timer, timestamp, new_interval) ==
    LET t1 == IF new_interval.some
              THEN [timer EXCEPT !.interval = new_interval.interval,
                                 !.last_send = MaxNat(timer.last_send,
                                                      timestamp - new_interval.interval)]
              ELSE [timer EXCEPT !.interval = DefaultInterval]
    IN  [t1 EXCEPT !.sleep_after = MaxNat(timer.sleep_after, timestamp + STOP_AFTER),
                   !.exit_after = MaxNat(timer.exit_after, timestamp + EXIT_AFTER)]

\* SenderTimer::set_rate
set_rate(timer, timestamp, new_interval) ==
    LET t1 == IF new_interval.some
              THEN [timer EXCEPT !.interval = new_interval.interval,
                                 !.last_send = MaxNat(timer.last_send,
                                                      timestamp - new_interval.interval)]
              ELSE timer
    IN  [t1 EXCEPT !.sleep_after = MaxNat(timer.sleep_after, timestamp + STOP_AFTER),
                   !.exit_after = MaxNat(timer.exit_after, timestamp + EXIT_AFTER)]

\* a plausible slip: the timer closes as soon as it goes to sleep
timer_poll_close_on_sleep(timer, t) ==
    IF t >= timer.sleep_after
    THEN [output |-> "Close", permits |-> 0, timer |-> timer]
    ELSE IF t >= timer.last_send + timer.interval /\ t - timer.last_send > timer.interval
    THEN LET can_send_num == (t - timer.last_send) \div timer.interval IN
         [output |-> "Send", permits |-> MinNat(can_send_num, MAX_BURST),
          timer |-> [timer EXCEPT !.last_send = @ + timer.interval * can_send_num]]
    ELSE [output |-> "Pending", permits |-> 0, timer |-> timer]

\* a plausible slip: last_send advances by the permits handed out only, so
\* that the permits beyond MAX_BURST are kept for the next poll
timer_poll_keep_excess(timer, t) ==
    IF t >= timer.exit_after
    THEN [output |-> "Close", permits |-> 0, timer |-> timer]
    ELSE IF t >= timer.sleep_after
    THEN [output |-> "Pending", permits |-> 0, timer |-> timer]
    ELSE IF t >= timer.last_send + timer.interval /\ t - timer.last_send > timer.interval
    THEN LET can_send_num == (t - timer.last_send) \div timer.interval IN
         [output |-> "Send", permits |-> MinNat(can_send_num, MAX_BURST),
          timer |-> [timer EXCEPT !.last_send =
                                     @ + timer.interval * MinNat(can_send_num, MAX_BURST)]]
    ELSE [output |-> "Pending", permits |-> 0, timer |-> timer]

\* SenderTimer::poll at time t: the output and the timer after the poll
timer_poll(timer, t) ==
    IF t >= timer.exit_after
    THEN [output |-> "Close", permits |-> 0, timer |-> timer]
    ELSE IF t >= timer.sleep_after
    THEN [output |-> "Pending", permits |-> 0, timer |-> timer]
    ELSE IF t >= timer.last_send + timer.interval /\ t - timer.last_send > timer.interval
    THEN LET can_send_num == (t - timer.last_send) \div timer.interval IN
         [output |-> "Send", permits |-> MinNat(can_send_num, MAX_BURST),
          timer |-> [timer EXCEPT !.last_send = @ + timer.interval * can_send_num]]
    ELSE [output |-> "Pending", permits |-> 0, timer |-> timer]

(***************************************************************************)
(* protocol/coding/raptorq_code.rs: RaptorqSender                          *)
(***************************************************************************)
\* encoder.get_block_encoders().len() of the served chunk
encoder_cnt == 2

\* (next_id / encoder_cnt) * encoder_cnt: the offset of the first frame the
\* sender hands out after init(chunk_data, next_id)
sender_init(next_id) ==
    LET r == ((next_id[1] % encoder_cnt) * (Half % encoder_cnt) + next_id[2]) % encoder_cnt
    IN  IF next_id[2] >= r THEN <<next_id[1], next_id[2] - r>>
        ELSE <<next_id[1] - 1, next_id[2] + Half - r>>

\* a plausible slip: next_frame hands out the same frame again
frame_after_stuck(frame_offset) == frame_offset

\* the offset of the frame that follows frame_offset in next_frame's cache
frame_after(frame_offset) == U32Add(frame_offset, U32(1))

(***************************************************************************)
(* engine/encoding.rs: ChunkEncoder                                        *)
(***************************************************************************)
NoTimer == timer_new(0, 0)

\* no encoder actor at the address; life counts the actors created so far
\* what an order asks for: the order without the time it was built at
Request(order) ==
    [offset_next |-> order.offset_next, offset_no_more_than |-> order.offset_no_more_than,
     close_now |-> order.close_now, sending_interval |-> order.sending_interval]

NoRequest ==
    [offset_next |-> U32(0), offset_no_more_than |-> U32(0), close_now |-> TRUE,
     sending_interval |-> NoInterval]

Absent(life) ==
    [state |-> "absent", next_frame_offset |-> U32(0), max_frame_offset |-> U32(0),
     max_sent_offset |-> U32(0), timer |-> NoTimer, life |-> life, last_order_at |-> 0,
     started_by |-> NoRequest, taken |-> {}]

\* the actor e has left its loop and is dropped; what it was asked stays on
\* record
Dropped(e) == [Absent(e.life) EXCEPT !.started_by = e.started_by, !.taken = e.taken]

\* ChunkEncoder::new with start_order at time t
ChunkEncoder_new(start_order, t, life) ==
    [state |-> "running",
     next_frame_offset |-> sender_init(start_order.offset_next),
     max_frame_offset |-> U32Add(start_order.offset_next, start_order.offset_no_more_than),
     max_sent_offset |-> U32(0),
     timer |-> timer_new(IF start_order.sending_interval.some
                         THEN start_order.sending_interval.interval
                         ELSE DefaultInterval, t),
     life |-> life, last_order_at |-> t,
     started_by |-> Request(start_order), taken |-> {}]

\* a plausible slip: the loop does not look at max_frame_offset
RECURSIVE send_loop_unchecked(_, _, _, _)
send_loop_unchecked(x, e, socket_registered, out) ==
    IF x = 0
    THEN [encoder |-> e, out |-> out]
    ELSE LET frame_offset == e.next_frame_offset
             e1 == [e EXCEPT !.next_frame_offset = frame_after(frame_offset)]
         IN  IF ~socket_registered
             THEN [encoder |-> e1, out |-> out]
             ELSE send_loop_unchecked(x - 1, [e1 EXCEPT !.max_sent_offset = frame_offset],
                                      socket_registered, Append(out, frame_offset))

\* the for loop of the Send(x) branch: e is the encoder, out the offsets of
\* the frames handed to the SenderSocket so far
RECURSIVE send_loop(_, _, _, _)
send_loop(x, e, socket_registered, out) ==
    IF x = 0 \/ U32Leq(e.max_frame_offset, e.max_sent_offset)
    THEN [encoder |-> e, out |-> out]
    ELSE LET frame_offset == e.next_frame_offset
             e1 == [e EXCEPT !.next_frame_offset = frame_after(frame_offset)]
         IN  IF ~socket_registered
             THEN [encoder |-> e1, out |-> out]
             ELSE send_loop(x - 1, [e1 EXCEPT !.max_sent_offset = frame_offset],
                            socket_registered, Append(out, frame_offset))


(***************************************************************************)
(* engine/sending.rs: SendingSocket::run, and engine/encoding.rs: spawn    *)
(***************************************************************************)
\* the orders in which the for loop can visit the entries of the HashMap
Perms(S) ==
    {seq \in [1..Cardinality(S) -> S] :
        \A i, j \in 1..Cardinality(S) : i # j => seq[i] # seq[j]}

\* the addresses named by the GetChunk frames of a datagram
OrderAddrs(dgram) ==
    {FrameEncoder(dgram.frames[i].chunk_id, dgram.peer) :
        i \in {j \in DOMAIN dgram.frames : dgram.frames[j].frame_type = "GetChunk"}}

\* encoding::spawn with start_order for addr at time t; st is the sender's
\* bus, encoders and queues
spawn(start_order, addr, t, st) ==
    IF start_order.chunk_id \notin DOMAIN ChunkIndex
    THEN [st EXCEPT !.trace = Append(@, [addr |-> addr, outcome |-> "not_in_index"])]
    ELSE IF ChunkIndex[start_order.chunk_id] # "mappable"
    THEN [st EXCEPT !.panic = TRUE,
                    !.trace = Append(@, [addr |-> addr, outcome |-> "panic"])]
    ELSE [st EXCEPT !.bus_peers = @ \cup {addr},
                    !.enc_queue[addr] = <<>>,
                    !.enc[addr] = ChunkEncoder_new(start_order, t, st.enc[addr].life + 1),
                    !.trace = Append(@, [addr |-> addr, outcome |-> "spawned"])]

\* a plausible slip: a close_now order that cannot be delivered spawns too
deliver_one_spawn_on_close(addr, order, t, st) ==
    IF addr \in st.bus_peers
    THEN [st EXCEPT !.enc_queue[addr] = Append(@, order),
                    !.trace = Append(@, [addr |-> addr, outcome |-> "delivered"])]
    ELSE spawn(order, addr, t, st)

\* a plausible slip: an order that is not close_now spawns without trying the
\* bus first
deliver_one_respawn(addr, order, t, st) ==
    IF order.close_now
    THEN IF addr \in st.bus_peers
         THEN [st EXCEPT !.enc_queue[addr] = Append(@, order),
                         !.trace = Append(@, [addr |-> addr, outcome |-> "delivered"])]
         ELSE [st EXCEPT !.trace = Append(@, [addr |-> addr, outcome |-> "skipped"])]
    ELSE spawn(order, addr, t, st)

\* one round of the for loop: send the order, spawn when the send fails
deliver_one(addr, order, t, st) ==
    IF addr \in st.bus_peers
    THEN [st EXCEPT !.enc_queue[addr] = Append(@, order),
                    !.trace = Append(@, [addr |-> addr, outcome |-> "delivered"])]
    ELSE IF order.close_now
    THEN [st EXCEPT !.trace = Append(@, [addr |-> addr, outcome |-> "skipped"])]
    ELSE spawn(order, addr, t, st)

\* the for loop over the orders, visited in the order seq; a panic ends it
RECURSIVE deliver_orders(_, _, _, _)
deliver_orders(seq, orders, t, st) ==
    IF seq = <<>> \/ st.panic THEN st
    ELSE deliver_orders(Tail(seq), orders, t, deliver_one(Head(seq), orders[Head(seq)], t, st))

\* the datagram branch of the select as a whole
handle_datagram(dgram, seq, t, st) ==
    LET parsed == parse_packet(dgram) IN
    IF ~parsed.ok THEN [st EXCEPT !.derived = FALSE]
    ELSE LET built == build_sending_order(parsed, dgram.peer, t) IN
         IF ~built.some THEN [st EXCEPT !.derived = FALSE]
         ELSE IF built.panic THEN [st EXCEPT !.derived = FALSE, !.panic = TRUE]
         ELSE deliver_orders(seq, built.orders, t,
                             [st EXCEPT !.derived = TRUE, !.orders = built.orders])

\* the GetChunk frames of dgram for the chunk and the peer of addr
GetChunksFor(dgram, addr) ==
    {dgram.frames[i] : i \in {j \in DOMAIN dgram.frames :
                                 /\ dgram.frames[j].frame_type = "GetChunk"
                                 /\ FrameEncoder(dgram.frames[j].chunk_id, dgram.peer) = addr}}

InitSender ==
    /\ now = 0
    /\ ss_running = TRUE
    /\ bus_peers = {SenderSocket}
    /\ ss_queue = <<>>
    /\ enc = [a \in EncoderAddrs |-> Absent(0)]
    /\ enc_queue = [a \in EncoderAddrs |-> <<>>]
    /\ datagrams = 0
    /\ emitted = [a \in EncoderAddrs |-> <<>>]
    /\ asked = [a \in EncoderAddrs |-> {}]
    /\ ev = [kind |-> "init"]

\* the socket receives dgram; a panic inside the handler ends the actor,
\* which drops its bus interface and so unregisters SenderSocket
SocketDatagram(dgram, seq) ==
    /\ ss_running
    /\ datagrams < MaxDatagrams
    /\ LET st0 == [bus_peers |-> bus_peers, enc |-> enc, enc_queue |-> enc_queue,
                   panic |-> FALSE, derived |-> FALSE, orders |-> EmptyMap,
                   trace |-> <<>>]
           st == handle_datagram(dgram, seq, now, st0)
       IN  /\ enc' = st.enc
           /\ enc_queue' = st.enc_queue
           /\ ss_running' = ~st.panic
           /\ bus_peers' = IF st.panic THEN st.bus_peers \ {SenderSocket} ELSE st.bus_peers
           /\ ss_queue' = IF st.panic THEN <<>> ELSE ss_queue
           /\ ev' = [kind |-> "datagram", dgram |-> dgram, derived |-> st.derived,
                     orders |-> st.orders, trace |-> st.trace, panic |-> st.panic]
    /\ datagrams' = datagrams + 1
    /\ asked' = [addr \in EncoderAddrs |->
                    asked[addr] \cup
                        (IF parse_packet(dgram).ok /\ dgram.packet_type = "Ticket"
                         THEN GetChunksFor(dgram, addr) ELSE {})]
    /\ UNCHANGED <<now, emitted>>
    /\ UNCHANGED notSender

\* the socket takes a data frame from its queue and sends it to the peer
SocketSendData ==
    /\ ss_running
    /\ ss_queue # <<>>
    /\ ss_queue' = Tail(ss_queue)
    /\ ev' = [kind |-> "send_data", frame |-> Head(ss_queue)]
    /\ UNCHANGED <<now, ss_running, bus_peers, enc, enc_queue, datagrams, emitted>>
    /\ UNCHANGED asked
    /\ UNCHANGED notSender

\* the encoder at addr takes an order from its queue; leaving the loop drops
\* the actor and its bus interface
EncoderOrder(addr) ==
    /\ enc[addr].state = "running"
    /\ enc_queue[addr] # <<>>
    /\ LET order == Head(enc_queue[addr])
           e == [enc[addr] EXCEPT
                    !.timer = set_rate(@, now, order.sending_interval),
                    !.max_frame_offset = U32cmax(@, order.offset_no_more_than),
                    !.last_order_at = now,
                    !.taken = @ \cup {Request(order)}]
       IN  /\ IF order.close_now
              THEN /\ enc' = [enc EXCEPT ![addr] = Dropped(e)]
                   /\ enc_queue' = [enc_queue EXCEPT ![addr] = <<>>]
                   /\ bus_peers' = bus_peers \ {addr}
              ELSE /\ enc' = [enc EXCEPT ![addr] = e]
                   /\ enc_queue' = [enc_queue EXCEPT ![addr] = Tail(@)]
                   /\ bus_peers' = bus_peers
           /\ ev' = [kind |-> "order", addr |-> addr, order |-> order]
    /\ UNCHANGED <<now, ss_running, ss_queue, datagrams, emitted>>
    /\ UNCHANGED asked
    /\ UNCHANGED notSender

\* the timer of the encoder at addr is ready: Send(x) or Close
EncoderPoll(addr) ==
    /\ enc[addr].state = "running"
    /\ LET polled == timer_poll(enc[addr].timer, now) IN
       /\ polled.output # "Pending"
       /\ IF polled.output = "Close"
          THEN /\ enc' = [enc EXCEPT ![addr] = Dropped(enc[addr])]
               /\ enc_queue' = [enc_queue EXCEPT ![addr] = <<>>]
               /\ bus_peers' = bus_peers \ {addr}
               /\ UNCHANGED <<ss_queue, emitted>>
               /\ ev' = [kind |-> "poll", addr |-> addr, output |-> "Close", out |-> <<>>]
          ELSE LET r == send_loop(polled.permits, [enc[addr] EXCEPT !.timer = polled.timer],
                                  SenderSocket \in bus_peers, <<>>)
               IN  /\ enc' = [enc EXCEPT ![addr] = r.encoder]
                   /\ ss_queue' = ss_queue \o
                          [i \in DOMAIN r.out |->
                              [to |-> addr[3], chunk_id |-> addr[2], frame_offset |-> r.out[i]]]
                   /\ emitted' = [emitted EXCEPT ![addr] = @ \o
                          [i \in DOMAIN r.out |->
                              [life |-> enc[addr].life, frame_offset |-> r.out[i]]]]
                   /\ UNCHANGED <<enc_queue, bus_peers>>
                   /\ ev' = [kind |-> "poll", addr |-> addr, output |-> "Send", out |-> r.out]
    /\ UNCHANGED <<now, ss_running, datagrams>>
    /\ UNCHANGED asked
    /\ UNCHANGED notSender

\* time passes
Advance ==
    /\ now + TimeStep <= MaxTime * Second
    /\ now' = now + TimeStep
    /\ ev' = [kind |-> "advance"]
    /\ UNCHANGED <<ss_running, bus_peers, ss_queue, enc, enc_queue, datagrams, emitted>>
    /\ UNCHANGED asked
    /\ UNCHANGED notSender

NextSender ==
    \/ \E dgram \in Datagrams : \E seq \in Perms(OrderAddrs(dgram)) : SocketDatagram(dgram, seq)
    \/ SocketSendData
    \/ \E addr \in EncoderAddrs : EncoderOrder(addr)
    \/ \E addr \in EncoderAddrs : EncoderPoll(addr)
    \/ Advance

(***************************************************************************)
(* engine/bus_flume.rs: the operations of the bus                          *)
(***************************************************************************)
\* the addresses used on the bus
BusAddrs == {SenderSocket, FrameEncoder(1, "peer1")}

NoChan == 0
Channels == 1..MaxRegisters

\* the typed messages M the actors send: the type and the content
TypedMessages ==
    {[type |-> "SendingOrder", content |-> 1], [type |-> "SendingOrder", content |-> 2],
     [type |-> "ReceivingChunkReport", content |-> 1]}

\* M::into(): the BusMessage variant that wraps the typed message
into(message) == [variant |-> message.type, inner |-> message.content]

\* M::try_from(BusMessage).ok(): the typed message when the variant is M's
try_from(type, bus_message) ==
    IF bus_message.variant = type
    THEN [some |-> TRUE, value |-> [type |-> type, content |-> bus_message.inner]]
    ELSE [some |-> FALSE, value |-> [type |-> type, content |-> 0]]

\* the receiver of the channel is still held by an interface
receiver_alive(ch) == \E i \in interfaces : i.receiver = ch

\* a plausible slip: a message for an absent address is kept on a channel
bus_send_park(to, msg) ==
    IF peers[to] # NoChan /\ receiver_alive(peers[to])
    THEN [ok |-> TRUE, err |-> msg,
          chan_queue |-> [chan_queue EXCEPT ![peers[to]] = Append(@, msg)]]
    ELSE [ok |-> FALSE, err |-> msg,
          chan_queue |-> [chan_queue EXCEPT ![1] = Append(@, msg)]]

\* Bus::send: Ok after the message is on the channel of the address, Err
\* with the message when the address is absent or its receiver is gone
bus_send(to, msg) ==
    IF peers[to] # NoChan /\ receiver_alive(peers[to])
    THEN [ok |-> TRUE, err |-> msg,
          chan_queue |-> [chan_queue EXCEPT ![peers[to]] = Append(@, msg)]]
    ELSE [ok |-> FALSE, err |-> msg, chan_queue |-> chan_queue]

InitBus ==
    /\ peers = [a \in BusAddrs |-> NoChan]
    /\ chan_queue = [ch \in Channels |-> <<>>]
    /\ interfaces = {}
    /\ channels = 0
    /\ bus_sends = 0
    /\ bus_ev = [op |-> "init"]

\* Bus::register(id): a new channel; its Sender replaces the entry of id
BusRegister(id) ==
    /\ channels < MaxRegisters
    /\ channels' = channels + 1
    /\ peers' = [peers EXCEPT ![id] = channels + 1]
    /\ interfaces' = interfaces \cup {[address |-> id, receiver |-> channels + 1]}
    /\ bus_ev' = [op |-> "register", address |-> id]
    /\ UNCHANGED <<chan_queue, bus_sends>>
    /\ UNCHANGED notBus

\* BusInterface::send(to, message) called through the interface self
BusSend(self, to, message) ==
    /\ self \in interfaces
    /\ bus_sends < MaxBusSends
    /\ bus_sends' = bus_sends + 1
    /\ LET r == bus_send(to, into(message)) IN
       /\ chan_queue' = r.chan_queue
       /\ bus_ev' = [op |-> "send", to |-> to, message |-> message, ok |-> r.ok,
                     returned |-> try_from(message.type, r.err)]
    /\ UNCHANGED <<peers, interfaces, channels>>
    /\ UNCHANGED notBus

\* BusInterface::recv::<R>() with a message waiting: the message is taken,
\* and is Some only when its variant is R's
BusRecv(self, type) ==
    /\ self \in interfaces
    /\ chan_queue[self.receiver] # <<>>
    /\ chan_queue' = [chan_queue EXCEPT ![self.receiver] = Tail(@)]
    /\ bus_ev' = [op |-> "recv", address |-> self.address,
                  got |-> try_from(type, Head(chan_queue[self.receiver]))]
    /\ UNCHANGED <<peers, interfaces, channels, bus_sends>>
    /\ UNCHANGED notBus

\* Drop for BusInterface: unregister(address), then the receiver goes and
\* with it the messages still on its channel
BusDrop(self) ==
    /\ self \in interfaces
    /\ peers' = [peers EXCEPT ![self.address] = NoChan]
    /\ interfaces' = interfaces \ {self}
    /\ chan_queue' = [chan_queue EXCEPT ![self.receiver] = <<>>]
    /\ bus_ev' = [op |-> "drop", address |-> self.address]
    /\ UNCHANGED <<channels, bus_sends>>
    /\ UNCHANGED notBus

NextBus ==
    \/ \E id \in BusAddrs : BusRegister(id)
    \/ \E self \in interfaces, to \in BusAddrs, m \in TypedMessages : BusSend(self, to, m)
    \/ \E self \in interfaces, type \in {"SendingOrder", "ReceivingChunkReport"} :
          BusRecv(self, type)
    \/ \E self \in interfaces : BusDrop(self)

(***************************************************************************)
(* util/timer.rs: a SenderTimer called at arbitrary instants               *)
(***************************************************************************)
Millisecond == 1000

\* the intervals the timers are created with and set to
TimerIntervals == {Second, 3 * Second}

\* the new_interval arguments of set_rate
RateArguments == {NoInterval} \cup {SomeInterval(i) : i \in TimerIntervals}

\* the time between two looks at the clock: the clock is read on a grid of
\* seconds, one microsecond after it, or after a stall of the task
Grain == Second
Latency == 1
Stall == 9 * Grain
Naps == {Latency, Grain, Stall}

\* set_rate is called on full multiples of this
RateGrid == 10 * Second

InitTimer ==
    /\ tmr = NoTimer
    /\ tmr_state = "none"
    /\ tmr_now = 0
    /\ tmr_permits = 0
    /\ tmr_calls = <<>>
    /\ tmr_wakes = {}
    /\ tmr_woken = FALSE
    /\ sent_times = <<>>
    /\ tmr_ev = [op |-> "init"]

\* SenderTimer::new(interval)
TimerNew(interval) ==
    /\ tmr_state = "none"
    /\ tmr_now = 0
    /\ tmr' = timer_new(interval, tmr_now)
    /\ tmr_state' = "live"
    /\ tmr_woken' = TRUE
    /\ tmr_ev' = [op |-> "new"]
    /\ UNCHANGED <<tmr_now, tmr_permits, tmr_calls, tmr_wakes, sent_times>>
    /\ UNCHANGED notTimer

\* timer.set_rate(Instant::now(), new_interval)
TimerSetRate(new_interval) ==
    /\ tmr_state = "live"
    /\ Len(tmr_calls) < MaxRateCalls
    /\ tmr_now % RateGrid = 0
    /\ tmr' = set_rate(tmr, tmr_now, new_interval)
    /\ tmr_calls' = Append(tmr_calls, [at |-> tmr_now, new_interval |-> new_interval])
    /\ tmr_woken' = TRUE
    /\ tmr_ev' = [op |-> "set_rate"]
    /\ UNCHANGED <<tmr_state, tmr_now, tmr_permits, tmr_wakes, sent_times>>
    /\ UNCHANGED notTimer

\* (&mut timer).await polled at an arbitrary instant
TimerPoll ==
    /\ tmr_state = "live"
    /\ LET r == timer_poll(tmr, tmr_now) IN
       /\ tmr' = r.timer
       /\ tmr_permits' = tmr_permits + r.permits
       /\ tmr_state' = IF r.output = "Close" THEN "closed" ELSE "live"
       /\ tmr_ev' = [op |-> "poll", output |-> r.output, permits |-> r.permits]
    /\ UNCHANGED <<tmr_now, tmr_calls, tmr_wakes, tmr_woken, sent_times>>
    /\ UNCHANGED notTimer

\* time passes
TimerNap(d) ==
    /\ tmr_state = "live"
    /\ d = Latency => tmr_now % Grain = 0
    /\ tmr_now + d <= MaxClock
    /\ tmr_now' = IF d = Latency THEN tmr_now + d ELSE ((tmr_now + d) \div Grain) * Grain
    /\ tmr_ev' = [op |-> "nap"]
    /\ UNCHANGED <<tmr, tmr_state, tmr_permits, tmr_calls, tmr_wakes, tmr_woken, sent_times>>
    /\ UNCHANGED notTimer

NextTimer ==
    \/ \E i \in TimerIntervals : TimerNew(i)
    \/ \E ni \in RateArguments : TimerSetRate(ni)
    \/ TimerPoll
    \/ \E d \in Naps : TimerNap(d)

(***************************************************************************)
(* util/timer.rs, mod test: the tasks of the clock test                    *)
(***************************************************************************)
\* the interval the sender task creates its timer with
ClockStartInterval == 900 * Millisecond

\* the instants the controller task sleeps until before each send
ControllerTimes == <<3 * Second, 20 * Second>>

\* the intervals the controller sends in the test
ControllerIntervals == <<500 * Millisecond, 1500 * Millisecond>>

\* the intervals a controller may send
ClockIntervals == {500 * Millisecond, 1500 * Millisecond}

\* the clock of the test is watched every tenth of a second and at the
\* instants the tasks sleep until
ClockGrain == 100 * Millisecond

\* (print_relative_time(..) / 100.0).round() as usize * 100
rounded(t) == ((t + ClockGrain \div 2) \div ClockGrain) * 100

\* x copies of the time
pushes(x, time) == [n \in 1..x |-> time]

\* the instant the sleeper spawned by a pending poll waits for
wake_time(timer, t) ==
    IF t >= timer.sleep_after THEN timer.exit_after ELSE timer.last_send + timer.interval

due_wakes == {w \in tmr_wakes : w <= tmr_now}

\* the controller has slept long enough for its next send
controller_due ==
    /\ Len(tmr_calls) < Len(ControllerTimes)
    /\ tmr_now >= ControllerTimes[Len(tmr_calls) + 1]

\* the controller sends an interval: the sender's select takes it from the
\* channel and calls set_rate, which wakes the timer
ClockRate(interval) ==
    /\ tmr_state = "live"
    /\ controller_due
    /\ tmr' = set_rate(tmr, tmr_now, SomeInterval(interval))
    /\ tmr_calls' = Append(tmr_calls, [at |-> tmr_now, new_interval |-> SomeInterval(interval)])
    /\ tmr_woken' = TRUE
    /\ tmr_ev' = [op |-> "set_rate"]
    /\ UNCHANGED <<tmr_state, tmr_now, tmr_permits, tmr_wakes, sent_times>>
    /\ UNCHANGED notTimer

\* a sleeper spawned by poll wakes the sender task
ClockWake ==
    /\ tmr_state = "live"
    /\ due_wakes # {}
    /\ tmr_wakes' = tmr_wakes \ due_wakes
    /\ tmr_woken' = TRUE
    /\ tmr_ev' = [op |-> "wake"]
    /\ UNCHANGED <<tmr, tmr_state, tmr_now, tmr_permits, tmr_calls, sent_times>>
    /\ UNCHANGED notTimer

\* the select of the sender task polls the timer
ClockPoll ==
    /\ tmr_state = "live"
    /\ tmr_woken
    /\ LET r == timer_poll(tmr, tmr_now) IN
       /\ tmr' = r.timer
       /\ tmr_permits' = tmr_permits + r.permits
       /\ tmr_state' = IF r.output = "Close" THEN "closed" ELSE "live"
       /\ tmr_woken' = (r.output = "Send")
       /\ tmr_wakes' = IF r.output = "Pending"
                       THEN tmr_wakes \cup {wake_time(tmr, tmr_now)}
                       ELSE tmr_wakes
       /\ sent_times' = IF r.output = "Send"
                        THEN sent_times \o pushes(r.permits, rounded(tmr_now))
                        ELSE IF r.output = "Close"
                        THEN Append(sent_times, rounded(tmr_now))
                        ELSE sent_times
       /\ tmr_ev' = [op |-> "poll", output |-> r.output, permits |-> r.permits]
    /\ UNCHANGED <<tmr_now, tmr_calls>>
    /\ UNCHANGED notTimer

\* the sender task polls a timer whose next permit is due at this very
\* instant: the poll is pending and its sleeper wakes the task at once
spinning ==
    /\ tmr_woken \/ due_wakes # {}
    /\ tmr_now < tmr.sleep_after
    /\ tmr_now = tmr.last_send + tmr.interval

\* the tasks have nothing to do: time passes to the next tenth of a second or
\* to the next instant a sleeper waits for
ClockTick ==
    /\ tmr_state = "live"
    /\ ~tmr_woken /\ due_wakes = {} /\ ~controller_due
    /\ tmr_now < MaxClock
    /\ LET grid == (tmr_now \div ClockGrain + 1) * ClockGrain
           next == {w \in tmr_wakes : w < grid} IN
       tmr_now' = IF next = {} THEN grid ELSE CHOOSE w \in next : \A v \in next : w <= v
    /\ tmr_ev' = [op |-> "tick"]
    /\ UNCHANGED <<tmr, tmr_state, tmr_permits, tmr_calls, tmr_wakes, tmr_woken, sent_times>>
    /\ UNCHANGED notTimer

\* the clock moves on while the sender task spins or before the controller
\* task runs
ClockLate ==
    /\ tmr_state = "live"
    /\ \/ spinning
       \/ controller_due /\ tmr_now - ControllerTimes[Len(tmr_calls) + 1] < MaxLate * Latency
    /\ tmr_now' = tmr_now + Latency
    /\ tmr_ev' = [op |-> "late"]
    /\ UNCHANGED <<tmr, tmr_state, tmr_permits, tmr_calls, tmr_wakes, tmr_woken, sent_times>>
    /\ UNCHANGED notTimer

NextClock ==
    \/ TimerNew(ClockStartInterval)
    \/ \E i \in ClockIntervals : ClockRate(i)
    \/ ClockWake
    \/ ClockPoll
    \/ ClockTick
    \/ ClockLate

(***************************************************************************)
(* plan.rs: make_plan                                                      *)
(***************************************************************************)
DEFAULT_PAGE_SIZE == 4096
DEFAULT_PAGE_CHUNKS == 8192
CHUNK_SIZE == DEFAULT_PAGE_CHUNKS * DEFAULT_PAGE_SIZE

\* the file lengths planned: a number of full chunks, then a number of full
\* pages around the ends and the middle of a chunk, then a few bytes
PlanPages == {0, 1, 2, 3, DEFAULT_PAGE_CHUNKS \div 2 - 1, DEFAULT_PAGE_CHUNKS \div 2,
              DEFAULT_PAGE_CHUNKS \div 2 + 1, DEFAULT_PAGE_CHUNKS - 2, DEFAULT_PAGE_CHUNKS - 1}
PlanBytes == {0, 1, 343, DEFAULT_PAGE_SIZE - 1}
PlanLengths ==
    {a * CHUNK_SIZE + b * DEFAULT_PAGE_SIZE + c :
        a \in 0..MaxFullChunks, b \in PlanPages, c \in PlanBytes} \ {0}

\* a plausible slip: the first tail is yielded also when it is empty
make_plan_keep_empty(length) ==
    LET full_chunks == length \div CHUNK_SIZE
        full_chunks_used == IF full_chunks >= 1 THEN full_chunks - 1 ELSE 0
        tail_1_offset == full_chunks_used * CHUNK_SIZE
        remain_bytes == length - tail_1_offset
        remain_pages == remain_bytes \div DEFAULT_PAGE_SIZE
        tail_1_len == IF remain_bytes > CHUNK_SIZE
                      THEN ((remain_pages + 1) \div 2) * DEFAULT_PAGE_SIZE
                      ELSE 0
        tail_2_offset == tail_1_len + tail_1_offset
        tail_2_len == length - tail_2_offset
    IN  [x \in 1..full_chunks_used |-> <<(x - 1) * CHUNK_SIZE, CHUNK_SIZE>>]
            \o <<<<tail_1_offset, tail_1_len>>>>
            \o <<<<tail_2_offset, tail_2_len>>>>

\* a plausible slip: the pages of the two tails are halved rounding down
make_plan_half_down(length) ==
    LET full_chunks == length \div CHUNK_SIZE
        full_chunks_used == IF full_chunks >= 1 THEN full_chunks - 1 ELSE 0
        tail_1_offset == full_chunks_used * CHUNK_SIZE
        remain_bytes == length - tail_1_offset
        remain_pages == remain_bytes \div DEFAULT_PAGE_SIZE
        tail_1_len == IF remain_bytes > CHUNK_SIZE
                      THEN (remain_pages \div 2) * DEFAULT_PAGE_SIZE
                      ELSE 0
        tail_2_offset == tail_1_len + tail_1_offset
        tail_2_len == length - tail_2_offset
    IN  [x \in 1..full_chunks_used |-> <<(x - 1) * CHUNK_SIZE, CHUNK_SIZE>>]
            \o (IF tail_1_len > 0 THEN <<<<tail_1_offset, tail_1_len>>>> ELSE <<>>)
            \o <<<<tail_2_offset, tail_2_len>>>>

\* make_plan(file_length): the pairs (start_offset, length) in the order
\* the iterator yields them
make_plan(length) ==
    LET full_chunks == length \div CHUNK_SIZE
        full_chunks_used == IF full_chunks >= 1 THEN full_chunks - 1 ELSE 0
        tail_1_offset == full_chunks_used * CHUNK_SIZE
        remain_bytes == length - tail_1_offset
        remain_pages == remain_bytes \div DEFAULT_PAGE_SIZE
        tail_1_len == IF remain_bytes > CHUNK_SIZE
                      THEN ((remain_pages + 1) \div 2) * DEFAULT_PAGE_SIZE
                      ELSE 0
        tail_2_offset == tail_1_len + tail_1_offset
        tail_2_len == length - tail_2_offset
    IN  [x \in 1..full_chunks_used |-> <<(x - 1) * CHUNK_SIZE, CHUNK_SIZE>>]
            \o (IF tail_1_len > 0 THEN <<<<tail_1_offset, tail_1_len>>>> ELSE <<>>)
            \o <<<<tail_2_offset, tail_2_len>>>>

InitPlan ==
    /\ file_length = 0
    /\ plan = <<>>
    /\ plan_taken = 0

\* make_plan(total_length)
PlanMake(length) ==
    /\ file_length = 0
    /\ file_length' = length
    /\ plan' = make_plan(length)
    /\ plan_taken' = 0
    /\ UNCHANGED notPlan

\* the caller's loop takes the next pair, numbered by enumerate()
PlanNext ==
    /\ plan_taken < Len(plan)
    /\ plan_taken' = plan_taken + 1
    /\ UNCHANGED <<file_length, plan>>
    /\ UNCHANGED notPlan

NextPlan ==
    \/ \E length \in PlanLengths : PlanMake(length)
    \/ PlanNext

(***************************************************************************)
(* protocol/wire/packets.rs, encoding.rs: TicketPacket, build, parse_packet*)
(***************************************************************************)
VERSION == 1
PUB_KEY_LENGTH == 32
DEFAULT_FRAME_LEN == 1440
TRANSMISSION_INFO_LENGTH == 12

\* the sizes zerocopy gives the headers, in bytes
CommonPacketHeader_raw_len == 1 + 1 + 2 + 2 + 4
TicketPacketHeader_raw_len == PUB_KEY_LENGTH + 8
CommonFrameHeader_raw_len == 1 + 2
GetChunkFrameHeader_raw_len == 4 + 4 + 4
RateLimitFrameHeader_raw_len == 4 + 0
DataPacketHeader_raw_len == 0 + 0
DataFrameHeader_raw_len == 4 + 4 + TRANSMISSION_INFO_LENGTH

\* the size of an Ed25519 signature, and of the CRC64 field
SignatureLength == 64
Crc64Length == 8

\* a u16 keeps the low 16 bits
as_u16(n) == n % Half

\* PacketType and FrameType as u8
PacketType_Ticket == 65
PacketType_Data == 129
FrameType_Data == 1
FrameType_GetChunk == 2
FrameType_RateLimit == 3

\* TicketPacket::new()
TicketPacket_new ==
    [header |-> [pubkey |-> "key_client", timestamp_ms |-> 0],
     rate_limit |-> [some |-> FALSE, desired_max_kbps |-> 0],
     get_chunk |-> <<>>]

\* the chunk ids and frame values of the calls chosen freely, and the ids
\* and values of the chunks set after them
FreeGetChunks == {<<8, 75, 400>>, <<8, 234, 600>>, <<17, 2334, 800>>}
FreeRates == {80000}
MoreChunk(k) == <<100 + k, 0, 8192>>

\* the chunk ids a HashMap holds: get_chunk is kept as a sequence of
\* entries <<chunk_id, next_receive_offset, receive_window_frames>>
keys(get_chunk) == {get_chunk[n][1] : n \in 1..Len(get_chunk)}

\* HashMap::insert: the entry of the key is replaced, or a new one is made
insert_get_chunk(get_chunk, entry) ==
    IF entry[1] \in keys(get_chunk)
    THEN [n \in 1..Len(get_chunk) |->
             IF get_chunk[n][1] = entry[1] THEN entry ELSE get_chunk[n]]
    ELSE Append(get_chunk, entry)

\* FrameExt::build for the two frames of a ticket
build_get_chunk(entry) ==
    [frame_type |-> FrameType_GetChunk,
     frame_length |-> as_u16(CommonFrameHeader_raw_len + GetChunkFrameHeader_raw_len),
     header |-> entry]
build_rate_limit(kbps) ==
    [frame_type |-> FrameType_RateLimit,
     frame_length |-> as_u16(CommonFrameHeader_raw_len + RateLimitFrameHeader_raw_len),
     header |-> <<kbps>>]

\* the bytes a built frame takes on the wire: its header and, when it has
\* one, its body
frame_bytes(frame) ==
    CommonFrameHeader_raw_len + 4 * Len(frame.header)
        + (IF "body_len" \in DOMAIN frame THEN frame.body_len ELSE 0)

\* the bytes of a sequence of built frames: the frames of each size counted
RECURSIVE bytes_of_sizes(_, _)
bytes_of_sizes(frames, sizes) ==
    IF sizes = {} THEN 0
    ELSE LET size == CHOOSE x \in sizes : TRUE IN
         size * Cardinality({n \in 1..Len(frames) : frame_bytes(frames[n]) = size})
             + bytes_of_sizes(frames, sizes \ {size})
body_bytes(frames) ==
    bytes_of_sizes(frames, {frame_bytes(frames[n]) : n \in 1..Len(frames)})

\* the orders HashMap::into_values may yield the entries in
IterationOrders == {"forward", "backward"}
into_values(get_chunk, order) ==
    IF order = "forward" THEN get_chunk
    ELSE [n \in 1..Len(get_chunk) |-> get_chunk[Len(get_chunk) + 1 - n]]

\* TicketPacket::get_body
get_body(t, order) ==
    (IF t.rate_limit.some THEN <<build_rate_limit(t.rate_limit.desired_max_kbps)>> ELSE <<>>)
        \o [n \in 1..Len(t.get_chunk) |-> build_get_chunk(into_values(t.get_chunk, order)[n])]

\* PacketExt::build for a TicketPacket, signed with the key of the keyring
build(t, order) ==
    LET body == get_body(t, order)
        common == [version |-> VERSION, packet_type |-> PacketType_Ticket,
                   header_length |->
                       as_u16(CommonPacketHeader_raw_len + TicketPacketHeader_raw_len),
                   body_length |-> as_u16(body_bytes(body)),
                   packet_id |-> 0]
    IN  [common |-> common, header |-> t.header, header_bytes |-> TicketPacketHeader_raw_len,
         body |-> body,
         signature |-> [length |-> SignatureLength, signed_by |-> "key_client",
                        over |-> <<common, t.header, body>>]]

\* the length of the packet on the wire
packet_len(pkt) ==
    CommonPacketHeader_raw_len + pkt.header_bytes + body_bytes(pkt.body) + pkt.signature.length

\* the frames that lie whole in the first n bytes of the body
body_prefix(frames, n) ==
    LET whole == {k \in 0..Len(frames) : body_bytes(SubSeq(frames, 1, k)) <= n} IN
    SubSeq(frames, 1, CHOOSE k \in whole : \A j \in whole : j <= k)

\* KeyRing::verify on the Ed25519 data of a ticket
verify_ticket(pkt, pkt_len, signature_len) ==
    IF pkt_len > MTU THEN "PacketTooLong"
    ELSE IF parse_and_check_key(pkt.header.pubkey) # "Ok"
    THEN parse_and_check_key(pkt.header.pubkey)
    ELSE IF signature_len # SignatureLength THEN "IncorrectLength"
    ELSE IF pkt.signature.over
            # <<pkt.common, pkt.header,
                body_prefix(pkt.body, pkt_len - pkt.common.header_length)>>
    THEN "IncorrectSign"
    ELSE verify_ed25519(pkt.header.pubkey, pkt.signature.signed_by)

\* FrameType::try_parse of one frame of a body
try_parse_frame(frame) ==
    IF frame.frame_type = FrameType_Data
          /\ frame.frame_length - CommonFrameHeader_raw_len >= DataFrameHeader_raw_len
          /\ Len(frame.header) = 2 + TRANSMISSION_INFO_LENGTH \div 4
    THEN [some |-> TRUE,
          frame |-> [frame_type |-> "Data", chunk_id |-> frame.header[1],
                     frame_offset |-> frame.header[2],
                     data_len |-> frame.frame_length - CommonFrameHeader_raw_len
                                      - DataFrameHeader_raw_len]]
    ELSE IF frame.frame_type = FrameType_GetChunk
          /\ frame.frame_length - CommonFrameHeader_raw_len = GetChunkFrameHeader_raw_len
          /\ Len(frame.header) = 3
    THEN [some |-> TRUE,
          frame |-> GetChunk(frame.header[1], frame.header[2], frame.header[3])]
    ELSE IF frame.frame_type = FrameType_RateLimit
          /\ frame.frame_length - CommonFrameHeader_raw_len = RateLimitFrameHeader_raw_len
          /\ Len(frame.header) = 1
    THEN [some |-> TRUE, frame |-> RateLimit(frame.header[1])]
    ELSE [some |-> FALSE, frame |-> RateLimit(0)]

\* parse_frame: the frames of the body, in order, or the error of the
\* first frame that does not parse
parse_frame(remained_body) ==
    LET bad == {n \in 1..Len(remained_body) :
                   \/ remained_body[n].frame_length < CommonFrameHeader_raw_len
                   \/ ~try_parse_frame(remained_body[n]).some} IN
    IF bad = {}
    THEN [ok |-> TRUE, err |-> "none",
          frames |-> [n \in 1..Len(remained_body) |-> try_parse_frame(remained_body[n]).frame]]
    ELSE LET first == CHOOSE n \in bad : \A m \in bad : n <= m IN
         IF remained_body[first].frame_length < CommonFrameHeader_raw_len
         THEN [ok |-> FALSE, err |-> "BodyTooshort", frames |-> <<>>]
         ELSE [ok |-> FALSE, err |-> "UnsupportedFrameType", frames |-> <<>>]

\* parse_packet on the bytes of a built ticket
parse_ticket(pkt) ==
    LET header_length == pkt.common.header_length
        body_length == pkt.common.body_length
        failed(err) == [ok |-> FALSE, err |-> err, frames |-> <<>>]
    IN  IF pkt.common.version # VERSION THEN failed("UnsupportedVerion")
        ELSE IF header_length + body_length > packet_len(pkt) THEN failed("PacketTooShort")
        ELSE IF header_length < CommonPacketHeader_raw_len THEN failed("InconsistentFields")
        ELSE IF pkt.common.packet_type \notin {PacketType_Ticket, PacketType_Data}
        THEN failed("UnsupportedPacketType")
        ELSE IF pkt.common.packet_type # PacketType_Ticket
                \/ header_length - CommonPacketHeader_raw_len # TicketPacketHeader_raw_len
        THEN failed("FailedToParsePacketHeader")
        ELSE IF verify_ticket(pkt, header_length + body_length,
                              packet_len(pkt) - (header_length + body_length)) # "Ok"
        THEN failed(verify_ticket(pkt, header_length + body_length,
                                  packet_len(pkt) - (header_length + body_length)))
        ELSE parse_frame(body_prefix(pkt.body, body_length))

\* EncodingPacket::serialize of a symbol: the payload id, then the symbol
serialized_len(symbol_len) == 4 + symbol_len

\* the lengths of the data of the Data packets built: the serialized
\* symbol of the RaptorqSender, and the lengths around the two places where
\* the total length and the length without the CRC64 field pass the MTU
HeadLength ==
    CommonPacketHeader_raw_len + DataPacketHeader_raw_len + CommonFrameHeader_raw_len
        + DataFrameHeader_raw_len
DataLens ==
    {serialized_len(DEFAULT_FRAME_LEN),
     MTU - HeadLength - Crc64Length, MTU - HeadLength - Crc64Length + 1,
     MTU - HeadLength, MTU - HeadLength + 1}

\* FrameExt::build for a DataFrame: the header holds chunk_id, frame_offset
\* and the words of transmission_info, the body the data
build_data_frame(chunk_id, frame_offset, transmission_info, data_len) ==
    [frame_type |-> FrameType_Data,
     frame_length |-> CommonFrameHeader_raw_len + DataFrameHeader_raw_len + data_len,
     header |-> <<chunk_id, frame_offset>> \o transmission_info,
     body_len |-> data_len]

\* PacketExt::build for DataPacket::new(chunk_id, offset, transmission_info, data)
build_data(chunk_id, offset, transmission_info, data_len) ==
    LET body == <<build_data_frame(chunk_id, offset, transmission_info, data_len)>>
        common == [version |-> VERSION, packet_type |-> PacketType_Data,
                   header_length |->
                       as_u16(CommonPacketHeader_raw_len + DataPacketHeader_raw_len),
                   body_length |-> as_u16(body_bytes(body)),
                   packet_id |-> 0]
    IN  [common |-> common, header |-> <<>>, header_bytes |-> DataPacketHeader_raw_len,
         body |-> body,
         signature |-> [length |-> Crc64Length, signed_by |-> "crc64",
                        over |-> <<common, <<>>, body>>]]

\* KeyRing::verify on the CRC64 data of a Data packet
verify_data(pkt, pkt_len, crc64_len) ==
    IF pkt_len > MTU THEN "PacketTooLong"
    ELSE IF crc64_len # Crc64Length THEN "IncorrectLength"
    ELSE verify_crc64(pkt.signature.over
                          = <<pkt.common, pkt.header,
                              body_prefix(pkt.body, pkt_len - pkt.common.header_length)>>)

\* parse_packet on the bytes of a built Data packet
parse_data(pkt) ==
    LET header_length == pkt.common.header_length
        body_length == pkt.common.body_length
        failed(err) == [ok |-> FALSE, err |-> err, frames |-> <<>>]
    IN  IF pkt.common.version # VERSION THEN failed("UnsupportedVerion")
        ELSE IF header_length + body_length > packet_len(pkt) THEN failed("PacketTooShort")
        ELSE IF header_length < CommonPacketHeader_raw_len THEN failed("InconsistentFields")
        ELSE IF pkt.common.packet_type \notin {PacketType_Ticket, PacketType_Data}
        THEN failed("UnsupportedPacketType")
        ELSE IF pkt.common.packet_type # PacketType_Data
                \/ header_length - CommonPacketHeader_raw_len # DataPacketHeader_raw_len
        THEN failed("FailedToParsePacketHeader")
        ELSE IF verify_data(pkt, header_length + body_length,
                            packet_len(pkt) - (header_length + body_length)) # "Ok"
        THEN failed(verify_data(pkt, header_length + body_length,
                                packet_len(pkt) - (header_length + body_length)))
        ELSE parse_frame(body_prefix(pkt.body, body_length))

\* parse_packet: PacketType::try_parse picks the packet's parser
parse_wire(pkt) ==
    IF pkt.common.packet_type = PacketType_Data THEN parse_data(pkt) ELSE parse_ticket(pkt)

NoPacket == [built |-> FALSE]
NotParsed == [done |-> FALSE]

InitCodec ==
    /\ ticket = TicketPacket_new
    /\ ticket_calls = <<>>
    /\ wire = NoPacket
    /\ parsed_packet = NotParsed

\* the number of chunks set after the freely chosen calls
more_chunks == Cardinality(keys(ticket.get_chunk) \ {entry[1] : entry \in FreeGetChunks})

\* ticket.set_rate_limit(rate_kbps)
TicketSetRateLimit(kbps) ==
    /\ ~wire.built
    /\ Len(ticket_calls) < MaxFreeCalls
    /\ ticket' = [ticket EXCEPT !.rate_limit = [some |-> TRUE, desired_max_kbps |-> kbps]]
    /\ ticket_calls' = Append(ticket_calls, <<"set_rate_limit", kbps>>)
    /\ UNCHANGED <<wire, parsed_packet>>
    /\ UNCHANGED notCodec

\* ticket.set_get_chunk(chunk_id, next_received_offset, receive_window):
\* a freely chosen call, or the call for one more chunk
TicketSetGetChunk(entry) ==
    /\ ~wire.built
    /\ \/ Len(ticket_calls) < MaxFreeCalls /\ entry \in FreeGetChunks
       \/ more_chunks < MaxMoreChunks /\ entry = MoreChunk(more_chunks + 1)
    /\ ticket' = [ticket EXCEPT !.get_chunk = insert_get_chunk(@, entry)]
    /\ ticket_calls' = Append(ticket_calls, <<"set_get_chunk">> \o entry)
    /\ UNCHANGED <<wire, parsed_packet>>
    /\ UNCHANGED notCodec

\* ticket.build(), the HashMap yielding its values in one of its orders
TicketBuild(order) ==
    /\ ~wire.built
    /\ wire' = [built |-> TRUE, packet |-> build(ticket, order)]
    /\ UNCHANGED <<ticket, ticket_calls, parsed_packet>>
    /\ UNCHANGED notCodec

\* DataPacket::new(chunk_id, offset, transmission_info, data).build()
DataBuild(data_len) ==
    /\ ~wire.built
    /\ ticket_calls = <<>>
    /\ wire' = [built |-> TRUE, packet |-> build_data(19260817, 85213, <<7, 7, 7>>, data_len)]
    /\ UNCHANGED <<ticket, ticket_calls, parsed_packet>>
    /\ UNCHANGED notCodec

\* parse_packet(total_packet)
TicketParse ==
    /\ wire.built
    /\ ~parsed_packet.done
    /\ parsed_packet' = [done |-> TRUE, result |-> parse_wire(wire.packet)]
    /\ UNCHANGED <<ticket, ticket_calls, wire>>
    /\ UNCHANGED notCodec

NextCodec ==
    \/ \E kbps \in FreeRates : TicketSetRateLimit(kbps)
    \/ \E entry \in FreeGetChunks \cup {MoreChunk(more_chunks + 1)} : TicketSetGetChunk(entry)
    \/ \E order \in IterationOrders : TicketBuild(order)
    \/ \E data_len \in DataLens : DataBuild(data_len)
    \/ TicketParse

(***************************************************************************)
(* examples/local_transfer.rs: one sending socket and one receiving socket *)
(* on one bus, joined by MockSocket::pair; a task per chunk runs a decoder *)
(* under the semaphore.  The steps of the tasks take no time against the   *)
(* 2 s period of the receiver's ticker: a period ends when no other step   *)
(* is left to do, and the timer of an encoder permits MaxPermits frames in *)
(* a period.                                                               *)
(***************************************************************************)
\* CHUNKS and CONCURRENCY: two small transfers and a large one
NoTransfer == [chunks |-> 0, concurrency |-> 0]
Transfers ==
    {[chunks |-> SmallChunks, concurrency |-> 1],
     [chunks |-> SmallChunks, concurrency |-> 2],
     [chunks |-> ManyChunks, concurrency |-> ManyChunks]}
AllChunks == 0..(MaxNat(SmallChunks, ManyChunks) - 1)

\* the chunk ids CHUNK_INDEX is set to: 0..CHUNKS
IndexedChunks(conf) == 0..(conf.chunks - 1)

\* the bytes of a chunk of the source file
SourceChunk(c) == <<"bytes_of_chunk", c>>

\* Option<Vec<u8>>
None == [some |-> FALSE, bytes |-> <<>>]
Some(bytes) == [some |-> TRUE, bytes |-> bytes]

\* the entries TicketPacket::set_get_chunk has put into the HashMap of the
\* ticket generate returns
entries_of(get_chunk) ==
    LET D == DOMAIN get_chunk
        nth(n) == CHOOSE c \in D : Cardinality({d \in D : d < c}) = n - 1
    IN  [n \in 1..Cardinality(D) |->
            <<nth(n), get_chunk[nth(n)].next_receive_offset,
              get_chunk[nth(n)].receive_window_frames>>]

\* TicketPacket::new().set_rate_limit(rate_kbps) and the set_get_chunk calls
\* of the fold
as_packet(t) ==
    [TicketPacket_new EXCEPT
        !.rate_limit = [some |-> TRUE, desired_max_kbps |-> t.rate_limit],
        !.get_chunk = entries_of(t.get_chunk)]

\* build_sending_order for one GetChunk frame; the offsets of a transfer
\* stay far below 2^32
transfer_order_of(frame) ==
    [chunk_id |-> frame.chunk_id,
     offset_next |-> frame.next_receive_offset,
     offset_no_more_than |-> frame.next_receive_offset + frame.receive_window_frames,
     close_now |-> (frame.receive_window_frames = 0)]

NoEncoder ==
    [state |-> "absent", next_frame_offset |-> 0, max_frame_offset |-> 0,
     max_sent_offset |-> 0, permits |-> 0]

\* ChunkEncoder::new with FrameSender::init(chunk_data, offset_next)
transfer_encoder_new(start_order) ==
    [state |-> "running",
     next_frame_offset |-> (start_order.offset_next \div encoder_cnt) * encoder_cnt,
     max_frame_offset |-> start_order.offset_next + start_order.offset_no_more_than,
     max_sent_offset |-> 0,
     permits |-> MaxPermits]

\* SendingSocket::run for one order: the running encoder takes it, a
\* missing one is spawned unless the order closes or the chunk is unknown
transfer_deliver(e, order, indexed) ==
    IF e.state = "running"
    THEN IF order.close_now THEN NoEncoder
         ELSE [e EXCEPT !.max_frame_offset = MaxNat(@, order.offset_no_more_than)]
    ELSE IF order.close_now \/ ~indexed THEN e
    ELSE transfer_encoder_new(order)

\* the orders of the frames of a parsed ticket, delivered: per address the
\* order of the last GetChunk frame stays in the HashMap
serve(encoders, frames, index) ==
    [c \in AllChunks |->
        LET ns == {n \in 1..Len(frames) :
                      frames[n].frame_type = "GetChunk" /\ frames[n].chunk_id = c}
        IN  IF ns = {} THEN encoders[c]
            ELSE transfer_deliver(encoders[c],
                     transfer_order_of(frames[CHOOSE n \in ns : \A m \in ns : m <= n]),
                     c \in index)]

\* DataPacket::from(frame).build() for a frame of the RaptorqSender: the
\* data is a serialized symbol of DEFAULT_FRAME_LEN bytes
data_packet(chunk_id, frame_offset) ==
    build_data(chunk_id, frame_offset, <<7, 7, 7>>, serialized_len(DEFAULT_FRAME_LEN))

\* the loop of the Send(x) branch still has a frame to hand out
can_send(e) ==
    e.state = "running" /\ e.permits > 0 /\ e.max_frame_offset > e.max_sent_offset

\* the next task in the queue of the semaphore
next_task == CHOOSE c \in AllChunks :
                 xf_pc[c] = "queued" /\ \A d \in AllChunks : xf_pc[d] = "queued" => c <= d

\* nothing is left to do before the ticker's period ends
quiet ==
    /\ ~(xf_sem > 0 /\ \E c \in AllChunks : xf_pc[c] = "queued")
    /\ xf_reports = <<>>
    /\ xf_to_sender = <<>>
    /\ xf_to_receiver = <<>>
    /\ \A c \in AllChunks : xf_queue[c] = <<>> /\ ~can_send(xf_enc[c])

\* the sender drops the ticket the Reporter builds from its maps
Rejected(order) ==
    ~parse_ticket(build(as_packet(generate(xf_active, xf_exiting, 40960).ticket), order)).ok

\* the transfer has stalled: every task that can hold a permit waits for
\* its decoder, no report, frame or encoder is left, the Reporter holds
\* unfinished chunks only, and the sender drops the tickets on the paired
\* socket and the ticket of every later period
Stalled ==
    /\ xf_conf # NoTransfer
    /\ ~(xf_sem > 0 /\ \E c \in AllChunks : xf_pc[c] = "queued")
    /\ xf_reports = <<>>
    /\ xf_to_receiver = <<>>
    /\ \A c \in AllChunks : xf_queue[c] = <<>> /\ xf_enc[c].state = "absent"
    /\ \A c \in DOMAIN xf_active : ~is_finished(xf_active[c])
    /\ \A i \in 1..Len(xf_exiting) : DOMAIN xf_exiting[i] = {}
    /\ \A n \in 1..Len(xf_to_sender) : ~parse_ticket(xf_to_sender[n]).ok
    /\ \A order \in IterationOrders : Rejected(order)

InitTransfer ==
    /\ xf_conf = NoTransfer
    /\ xf_sem = 0
    /\ xf_pc = [c \in AllChunks |-> "none"]
    /\ xf_registered = {}
    /\ xf_decoder = [c \in AllChunks |-> NoDecoder]
    /\ xf_queue = [c \in AllChunks |-> <<>>]
    /\ xf_returned = [c \in AllChunks |-> None]
    /\ xf_reports = <<>>
    /\ xf_active = EmptyMap
    /\ xf_exiting = <<>>
    /\ xf_to_sender = <<>>
    /\ xf_enc = [c \in AllChunks |-> NoEncoder]
    /\ xf_to_receiver = <<>>
    /\ xf_ev = [kind |-> "init"]

\* main: the index, the pair, the two sockets, the semaphore and a task
\* per chunk
TransferMain(conf) ==
    /\ xf_conf = NoTransfer
    /\ xf_conf' = conf
    /\ xf_sem' = conf.concurrency
    /\ xf_pc' = [c \in AllChunks |-> IF c \in IndexedChunks(conf) THEN "queued" ELSE "none"]
    /\ xf_ev' = [stalled |-> Stalled, kind |-> "main"]
    /\ UNCHANGED <<xf_registered, xf_decoder, xf_queue, xf_returned, xf_reports, xf_active,
                   xf_exiting, xf_to_sender, xf_enc, xf_to_receiver>>
    /\ UNCHANGED notTransfer

\* the task of chunk c gets a permit, decoding::spawn registers
\* FrameDecoder(c) and the decoder runs up to its first recv
TransferTask(c) ==
    /\ xf_sem > 0
    /\ xf_pc[c] = "queued"
    /\ c = next_task
    /\ xf_sem' = xf_sem - 1
    /\ xf_pc' = [xf_pc EXCEPT ![c] = "await_first"]
    /\ xf_registered' = xf_registered \cup {c}
    /\ xf_reports' = Append(xf_reports, <<c, WantNext(0)>>)
    /\ xf_ev' = [stalled |-> Stalled, kind |-> "task", chunk_id |-> c]
    /\ UNCHANGED <<xf_conf, xf_decoder, xf_queue, xf_returned, xf_active, xf_exiting,
                   xf_to_sender, xf_enc, xf_to_receiver>>
    /\ UNCHANGED notTransfer

\* ReceivingSocket::run, the bus branch
TransferReport ==
    /\ xf_reports # <<>>
    /\ xf_active' = update(xf_active, Head(xf_reports)[1], Head(xf_reports)[2])
    /\ xf_reports' = Tail(xf_reports)
    /\ xf_ev' = [stalled |-> Stalled, kind |-> "report", chunk_id |-> Head(xf_reports)[1]]
    /\ UNCHANGED <<xf_conf, xf_sem, xf_pc, xf_registered, xf_decoder, xf_queue, xf_returned,
                   xf_exiting, xf_to_sender, xf_enc, xf_to_receiver>>
    /\ UNCHANGED notTransfer

\* a period of the ticker ends: ReceivingSocket::run, the ticker branch,
\* and the timers of the encoders permit the frames of the next period
TransferTick(order) ==
    /\ xf_conf # NoTransfer
    /\ quiet
    /\ xf_enc' = [c \in AllChunks |->
                     IF xf_enc[c].state = "running"
                     THEN [xf_enc[c] EXCEPT !.permits = MaxPermits] ELSE xf_enc[c]]
    /\ IF is_empty(xf_active, xf_exiting)
       THEN /\ xf_ev' = [stalled |-> Stalled, kind |-> "tick", sent |-> FALSE, frames |-> 0]
            /\ UNCHANGED <<xf_active, xf_exiting, xf_to_sender>>
       ELSE LET g == generate(xf_active, xf_exiting, 40960)
                packet == build(as_packet(g.ticket), order)
            IN  /\ xf_active' = g.active
                /\ xf_exiting' = g.exiting
                /\ xf_to_sender' = Append(xf_to_sender, packet)
                /\ xf_ev' = [stalled |-> Stalled, kind |-> "tick", sent |-> TRUE, frames |-> Len(packet.body)]
    /\ UNCHANGED <<xf_conf, xf_sem, xf_pc, xf_registered, xf_decoder, xf_queue, xf_returned,
                   xf_reports, xf_to_receiver>>
    /\ UNCHANGED notTransfer

\* SendingSocket::run, the datagram branch: a ticket that does not parse
\* is dropped
TransferTicket ==
    /\ xf_to_sender # <<>>
    /\ LET parsed == parse_ticket(Head(xf_to_sender)) IN
       /\ xf_enc' = IF parsed.ok
                    THEN serve(xf_enc, parsed.frames, IndexedChunks(xf_conf))
                    ELSE xf_enc
       /\ xf_ev' = [stalled |-> Stalled, kind |-> "ticket", ok |-> parsed.ok, err |-> parsed.err,
                    frames |-> Len(Head(xf_to_sender).body)]
    /\ xf_to_sender' = Tail(xf_to_sender)
    /\ UNCHANGED <<xf_conf, xf_sem, xf_pc, xf_registered, xf_decoder, xf_queue, xf_returned,
                   xf_reports, xf_active, xf_exiting, xf_to_receiver>>
    /\ UNCHANGED notTransfer

\* ChunkEncoder::run, one frame of the Send(x) branch, which the sending
\* socket puts on the paired socket
TransferSend(c) ==
    /\ can_send(xf_enc[c])
    /\ LET frame_offset == xf_enc[c].next_frame_offset IN
       /\ xf_enc' = [xf_enc EXCEPT ![c] =
                        [@ EXCEPT !.next_frame_offset = frame_offset + 1,
                                  !.max_sent_offset = frame_offset,
                                  !.permits = @ - 1]]
       /\ xf_to_receiver' = Append(xf_to_receiver,
                                [chunk_id |-> c, frame_offset |-> frame_offset,
                                 transmission_info |-> "info_ok", source |-> c,
                                 packet_len |-> packet_len(data_packet(c, frame_offset))])
       /\ xf_ev' = [stalled |-> Stalled, kind |-> "send", chunk_id |-> c, frame_offset |-> frame_offset]
    /\ UNCHANGED <<xf_conf, xf_sem, xf_pc, xf_registered, xf_decoder, xf_queue, xf_returned,
                   xf_reports, xf_active, xf_exiting, xf_to_sender>>
    /\ UNCHANGED notTransfer

\* ReceivingSocket::run, the datagram branch: the frame goes to
\* FrameDecoder(chunk_id), or nowhere when that address is not registered
TransferData ==
    /\ xf_to_receiver # <<>>
    /\ LET frame == Head(xf_to_receiver) IN
       /\ xf_queue' = IF frame.chunk_id \in xf_registered
                      THEN [xf_queue EXCEPT ![frame.chunk_id] = Append(@, frame)]
                      ELSE xf_queue
       /\ xf_ev' = [stalled |-> Stalled, kind |-> "data", chunk_id |-> frame.chunk_id,
                    routed |-> frame.chunk_id \in xf_registered]
    /\ xf_to_receiver' = Tail(xf_to_receiver)
    /\ UNCHANGED <<xf_conf, xf_sem, xf_pc, xf_registered, xf_decoder, xf_returned,
                   xf_reports, xf_active, xf_exiting, xf_to_sender, xf_enc>>
    /\ UNCHANGED notTransfer

\* ChunkDecoder::run, the first frame; when the decoder returns, its
\* interface is dropped and the task gives its permit back
TransferFirstFrame(c) ==
    /\ xf_pc[c] = "await_first"
    /\ xf_queue[c] # <<>>
    /\ LET r == first_frame(c, Head(xf_queue[c]))
           ended == r.pc \in {"failed", "completed"}
       IN  /\ xf_pc' = [xf_pc EXCEPT ![c] = r.pc]
           /\ xf_decoder' = [xf_decoder EXCEPT ![c] = r.decoder]
           /\ xf_queue' = [xf_queue EXCEPT ![c] = IF ended THEN <<>> ELSE Tail(@)]
           /\ xf_registered' = IF ended THEN xf_registered \ {c} ELSE xf_registered
           /\ xf_returned' = [xf_returned EXCEPT ![c] =
                                 IF r.pc = "completed"
                                 THEN Some(SourceChunk(Head(xf_queue[c]).source)) ELSE None]
           /\ xf_sem' = IF ended THEN xf_sem + 1 ELSE xf_sem
           /\ xf_ev' = [stalled |-> Stalled, kind |-> "first_frame", chunk_id |-> c, pc |-> r.pc]
    /\ UNCHANGED <<xf_conf, xf_reports, xf_active, xf_exiting, xf_to_sender, xf_enc,
                   xf_to_receiver>>
    /\ UNCHANGED notTransfer

\* ChunkDecoder::run, one turn of the loop
TransferNextFrame(c) ==
    /\ xf_pc[c] = "decoding"
    /\ xf_queue[c] # <<>>
    /\ LET frame == Head(xf_queue[c])
           d1 == decoder_update(xf_decoder[c], frame.frame_offset)
       IN  /\ xf_decoder' = [xf_decoder EXCEPT ![c] = d1]
           /\ IF decoder_complete(d1)
              THEN /\ xf_reports' = Append(xf_reports, <<c, Finished(d1.expected_frame_id)>>)
                   /\ xf_pc' = [xf_pc EXCEPT ![c] = "completed"]
                   /\ xf_queue' = [xf_queue EXCEPT ![c] = <<>>]
                   /\ xf_registered' = xf_registered \ {c}
                   /\ xf_returned' = [xf_returned EXCEPT ![c] = Some(SourceChunk(frame.source))]
                   /\ xf_sem' = xf_sem + 1
              ELSE /\ xf_reports' = Append(xf_reports, <<c, WantNext(d1.expected_frame_id)>>)
                   /\ xf_queue' = [xf_queue EXCEPT ![c] = Tail(@)]
                   /\ UNCHANGED <<xf_pc, xf_registered, xf_returned, xf_sem>>
           /\ xf_ev' = [stalled |-> Stalled, kind |-> "next_frame", chunk_id |-> c,
                        completed |-> decoder_complete(d1)]
    /\ UNCHANGED <<xf_conf, xf_active, xf_exiting, xf_to_sender, xf_enc, xf_to_receiver>>
    /\ UNCHANGED notTransfer

NextTransfer ==
    \/ \E conf \in Transfers : TransferMain(conf)
    \/ \E c \in AllChunks : TransferTask(c)
    \/ TransferReport
    \/ \E order \in IterationOrders : TransferTick(order)
    \/ TransferTicket
    \/ \E c \in AllChunks : TransferSend(c)
    \/ TransferData
    \/ \E c \in AllChunks : TransferFirstFrame(c)
    \/ \E c \in AllChunks : TransferNextFrame(c)

\* the state after construction of the receiver, of the sender and of a bus,
\* before a timer, a plan or a ticket is made
(***************************************************************************)
(* protocol/wire/encoding.rs: parse_packet and parse_frame on bytes        *)
(***************************************************************************)
\* a frame_type no FrameType has
FrameType_Unknown == 9

\* the bytes of a frame as a sender writes them: frame_type, the u16
\* frame_length in big endian, and payload_len further bytes
frame_on_wire(frame_type, frame_length, payload_len) ==
    <<frame_type, frame_length \div 256, frame_length % 256>>
        \o [i \in 1..payload_len |-> 0]

\* the payload a sender writes after the common header of a frame of each
\* type: the specific header and, for a Data frame, four bytes of data
PayloadOf(frame_type) ==
    IF frame_type = FrameType_Data THEN DataFrameHeader_raw_len + 4
    ELSE IF frame_type = FrameType_GetChunk THEN GetChunkFrameHeader_raw_len
    ELSE RateLimitFrameHeader_raw_len

\* the frames written into a body: every type, with the frame_length that
\* fits, and with lengths below the common header, one off, and beyond
CraftedFrames ==
    {[frame_type |-> t, frame_length |-> l, payload_len |-> PayloadOf(t)] :
        t \in {FrameType_Data, FrameType_GetChunk, FrameType_RateLimit, FrameType_Unknown},
        l \in {0, 2, 3, 6, 7, 8, 14, 15, 16, 26, 27, 28, 34}}

\* FrameType::try_parse on the payload_len bytes after the common header
try_parse_bytes(frame_type, payload_len) ==
    IF frame_type = FrameType_Data THEN payload_len >= DataFrameHeader_raw_len
    ELSE IF frame_type = FrameType_GetChunk THEN payload_len = GetChunkFrameHeader_raw_len
    ELSE payload_len = RateLimitFrameHeader_raw_len

\* parse_frame on the bytes of a body; parsed_frames counts the frames
\* pushed so far. Slicing beyond the end of the body panics.
RECURSIVE parse_frame_bytes(_, _)
parse_frame_bytes(remained_body, parsed_frames) ==
    IF remained_body = <<>> THEN [outcome |-> "Ok", err |-> "none", frames |-> parsed_frames]
    ELSE IF Len(remained_body) < CommonFrameHeader_raw_len
    THEN [outcome |-> "Err", err |-> "BodyTooshort", frames |-> 0]
    ELSE LET frame_type == remained_body[1]
             frame_length == remained_body[2] * 256 + remained_body[3]
         IN  IF frame_length < CommonFrameHeader_raw_len
             THEN [outcome |-> "Err", err |-> "BodyTooshort", frames |-> 0]
             ELSE IF frame_length > Len(remained_body)
             THEN [outcome |-> "Panic", err |-> "none", frames |-> 0]
             ELSE IF frame_type \notin {FrameType_Data, FrameType_GetChunk, FrameType_RateLimit}
             THEN [outcome |-> "Err", err |-> "UnsupportedFrameType", frames |-> 0]
             ELSE IF ~try_parse_bytes(frame_type, frame_length - CommonFrameHeader_raw_len)
             THEN [outcome |-> "Err", err |-> "UnsupportedFrameType", frames |-> 0]
             ELSE parse_frame_bytes(SubSeq(remained_body, frame_length + 1, Len(remained_body)),
                                    parsed_frames + 1)

\* parse_packet on a Data packet whose headers fit its bytes: the CRC64 is
\* verified, then the body is parsed
parse_packet_bytes(body, crc_ok) ==
    IF CommonPacketHeader_raw_len + DataPacketHeader_raw_len + Len(body) > MTU
    THEN [outcome |-> "Err", err |-> "PacketTooLong", frames |-> 0]
    ELSE IF verify_crc64(crc_ok) # "Ok"
    THEN [outcome |-> "Err", err |-> verify_crc64(crc_ok), frames |-> 0]
    ELSE parse_frame_bytes(body, 0)

NotRun == [done |-> FALSE]

InitRaw ==
    /\ raw_body = <<>>
    /\ raw_crafted = <<>>
    /\ raw_result = NotRun

\* the sender of the datagram writes one more frame into the body
RawFrame(frame) ==
    /\ ~raw_result.done
    /\ Len(raw_crafted) < MaxRawFrames
    /\ raw_body' = raw_body \o frame_on_wire(frame.frame_type, frame.frame_length,
                                              frame.payload_len)
    /\ raw_crafted' = Append(raw_crafted, frame)
    /\ UNCHANGED raw_result
    /\ UNCHANGED notRaw

\* the datagram arrives, with a CRC64 that matches its bytes or not, and
\* parse_packet runs on it
RawParse(crc_ok) ==
    /\ ~raw_result.done
    /\ raw_result' = [done |-> TRUE, crc_ok |-> crc_ok,
                      result |-> parse_packet_bytes(raw_body, crc_ok)]
    /\ UNCHANGED <<raw_body, raw_crafted>>
    /\ UNCHANGED notRaw

NextRaw ==
    \/ \E frame \in CraftedFrames : RawFrame(frame)
    \/ \E crc_ok \in BOOLEAN : RawParse(crc_ok)

Init ==
    /\ InitReporter /\ InitDecoder /\ InitSender /\ InitBus /\ InitTimer /\ InitPlan /\ InitCodec
    /\ InitTransfer /\ InitRaw

SpecRaw == Init /\ [][NextRaw]_vars

SpecTransfer == Init /\ [][NextTransfer]_vars

SpecBus == Init /\ [][NextBus]_vars

SpecTimer == Init /\ [][NextTimer]_vars

SpecClock == Init /\ [][NextClock]_vars

SpecPlan == Init /\ [][NextPlan]_vars

SpecCodec == Init /\ [][NextCodec]_vars

SpecSender == Init /\ [][NextSender]_vars

SpecDecoder == Init /\ [][NextDecoder]_vars

SpecReporter == Init /\ [][NextReporter]_vars

(***************************************************************************)
(* Properties of the Reporter                                              *)
(***************************************************************************)
\* the order the report merge is specified by: Finished above WantNext,
\* equal variants by inner offset
ReportLeq(a, b) ==
    \/ a.tag = "WantNext" /\ b.tag = "Finished"
    \/ a.tag = b.tag /\ a.n <= b.n

\* C1: between two ticket generations the report held for a chunk is the
\* maximum, under the order Finished > WantNext then inner offset, of all the
\* reports received for that chunk.
C1_ReportMerge ==
    \A c \in ChunkIds :
        /\ (c \in DOMAIN activate_data) <=> (received[c] # {})
        /\ received[c] # {} =>
              /\ activate_data[c] \in received[c]
              /\ \A r \in received[c] : ReportLeq(r, activate_data[c])

\* scenario S4: WantNext(5), Finished(3), WantNext(10) for chunk 1 leave Finished(3)
C1_Witness ==
    /\ received[1] = {WantNext(5), Finished(3), WantNext(10)}
    /\ 1 \in DOMAIN activate_data
    /\ activate_data[1] = Finished(3)

Carried(c) == tick_ticket # NoTicket /\ c \in DOMAIN tick_ticket.get_chunk

C2_Retransmitted ==
    /\ Len(exiting_data) <= 3
    /\ \A c \in ChunkIds : promoted[c] =>
          /\ since[c] \in 1..3 =>
                Carried(c) /\ tick_ticket.get_chunk[c].receive_window_frames = 0
          /\ since[c] >= 4 => ~Carried(c)

C2_Promote ==
    (updates' = updates /\ tick_ticket' # NoTicket) =>
        \A c \in DOMAIN activate_data : activate_data[c].tag = "Finished" =>
            /\ c \notin DOMAIN activate_data'
            /\ c \in DOMAIN exiting_data'[1]
            /\ exiting_data'[1][c] = activate_data[c]

\* C2: a Finished entry of active moves to the front generation of exiting at
\* the next ticket generation; exiting never holds more than three
\* generations; the chunk's frame with window 0 is in the tickets of the
\* promoting ticker period and of the next two, and in no later ticket unless
\* the chunk is reported again.
C2_FinishedRetransmission == [](C2_Retransmitted) /\ [][C2_Promote]_vars

C2_Witness ==
    \E c \in ChunkIds :
        /\ promoted[c] /\ since[c] = 3
        /\ Len(exiting_data) = 3 /\ c \in DOMAIN exiting_data[3]
        /\ Carried(c) /\ tick_ticket.get_chunk[c].receive_window_frames = 0

PolicyFrame(c, r) ==
    IF r.tag = "WantNext"
    THEN tick_ticket.get_chunk[c].next_receive_offset = r.n
         /\ tick_ticket.get_chunk[c].receive_window_frames
              = (IF r.n \div 5 > 8192 THEN r.n \div 5 ELSE 8192)
    ELSE tick_ticket.get_chunk[c].receive_window_frames = 0

\* C3: in the ticket of a ticker period, a chunk whose report is WantNext(n)
\* has the frame (n, max(8192, n/5)) and a chunk whose report is Finished(n)
\* has window 0.  (since[c] >= 1: the report was held when the ticket was built.)
C3_WindowPolicy ==
    tick_ticket # NoTicket =>
        /\ \A c \in DOMAIN activate_data : since[c] >= 1 =>
              Carried(c) /\ PolicyFrame(c, activate_data[c])
        /\ \A i \in 1..Len(exiting_data) : \A c \in DOMAIN exiting_data[i] :
              Carried(c) /\ PolicyFrame(c, exiting_data[i][c])

(***************************************************************************)
(* Properties of the decoder actor                                         *)
(***************************************************************************)
LastOf(q) == q[Len(q)]

\* C7: for every data frame the decoder absorbs, a completing update is
\* followed by Finished(expected_frame_id) and the return of the plaintext, any
\* other by WantNext(expected_frame_id); the actor never returns the plaintext
\* without having sent Finished.
C7_CompletionReport ==
    \A c \in ChunkIds :
        /\ dec_pc[c] = "completed" =>
              /\ dec_sent[c] # <<>>
              /\ LastOf(dec_sent[c]) = Finished(dec_decoder[c].expected_frame_id)
        /\ dec_pc[c] = "decoding" =>
              /\ dec_sent[c] # <<>>
              /\ LastOf(dec_sent[c]) = WantNext(dec_decoder[c].expected_frame_id)

C8_Started ==
    \A c \in ChunkIds :
        /\ dec_pc[c] \in {"spawned", "await_first", "decoding"} => dec_registered[c]
        /\ dec_taken[c] # <<>> => dec_sent[c] # <<>> /\ dec_sent[c][1] = WantNext(0)
        /\ dec_pc[c] \in {"decoding", "completed"} =>
              dec_decoder[c].config = dec_taken[c][1].transmission_info
        /\ (dec_taken[c] # <<>> /\ dec_taken[c][1].transmission_info = "info_malformed") =>
              /\ dec_pc[c] = "failed"
              /\ Len(dec_taken[c]) = 1
              /\ \A i \in 1..Len(dec_sent[c]) : dec_sent[c][i].tag # "Finished"

C8_ReportFirst ==
    \A c \in ChunkIds : dec_taken'[c] # dec_taken[c] =>
        /\ dec_registered[c]
        /\ dec_sent[c] # <<>> /\ dec_sent[c][1] = WantNext(0)

\* C8: a decoder is registered under FrameDecoder(chunk_id) and has sent
\* WantNext(0) before it takes any data frame; the first frame's
\* transmission_info configures the decoder; when try_init fails the actor
\* ends with None and has never sent Finished.
C8_DecoderStart == [](C8_Started) /\ [][C8_ReportFirst]_vars

C8_Witness ==
    \E c \in ChunkIds :
        /\ dec_pc[c] = "failed"
        /\ dec_taken[c] # <<>> /\ dec_taken[c][1].transmission_info = "info_malformed"
        /\ dec_sent[c] = <<WantNext(0)>>
        /\ ~dec_registered[c]

(***************************************************************************)
(* Properties of the sender                                                *)
(***************************************************************************)
\* the sum of two u32 as a number: the high half is left unreduced
MathSum(a, b) == <<a[1] + b[1] + ((a[2] + b[2]) \div Half), (a[2] + b[2]) % Half>>

\* a Ticket whose signature was made by its own key, a key of the allow-list
Authorized(dgram) ==
    /\ dgram.packet_type = "Ticket"
    /\ dgram.pub_key \in public_key_rings
    /\ dgram.signed_by = dgram.pub_key

\* the GetChunk frames of a datagram that are the last for their chunk id
LastGetChunks(dgram) ==
    {i \in DOMAIN dgram.frames :
        /\ dgram.frames[i].frame_type = "GetChunk"
        /\ \A j \in DOMAIN dgram.frames :
              (j > i /\ dgram.frames[j].frame_type = "GetChunk")
                  => dgram.frames[j].chunk_id # dgram.frames[i].chunk_id}

\* C4: for every GetChunk frame of a verified Ticket from peer p (the last
\* one, where a chunk is named twice, and leaving aside a RateLimit of 0) the
\* socket derives for FrameEncoder(chunk_id, p) the order with offset_next =
\* next_receive_offset, offset_no_more_than = next_receive_offset +
\* receive_window_frames as numbers, and close_now = (window = 0)
C4_OrderDerivation ==
    (/\ ev.kind = "datagram"
     /\ Authorized(ev.dgram)
     /\ \A i \in DOMAIN ev.dgram.frames : ev.dgram.frames[i] # RateLimit(0))
    => /\ ev.derived
       /\ DOMAIN ev.orders = OrderAddrs(ev.dgram)
       /\ \A i \in LastGetChunks(ev.dgram) :
             LET f == ev.dgram.frames[i]
                 order == ev.orders[FrameEncoder(f.chunk_id, ev.dgram.peer)]
             IN  /\ order.chunk_id = f.chunk_id
                 /\ order.offset_next = f.next_receive_offset
                 /\ order.offset_no_more_than =
                        MathSum(f.next_receive_offset, f.receive_window_frames)
                 /\ order.close_now = (f.receive_window_frames = U32(0))

\* the server can create an encoder for the chunk
Encodable(chunk_id) ==
    chunk_id \in DOMAIN ChunkIndex /\ ChunkIndex[chunk_id] = "mappable"

\* the socket's handler tried to send the order for addr in this step
Attempted(addr) ==
    /\ datagrams' = datagrams + 1
    /\ \E i \in DOMAIN ev'.trace : ev'.trace[i].addr = addr

\* an encoder actor is created for addr in this step
Created(addr) == enc'[addr].life = enc[addr].life + 1

C5_Spawn ==
    \A addr \in EncoderAddrs :
        /\ Created(addr) <=>
              /\ Attempted(addr)
              /\ addr \notin bus_peers
              /\ ~ev'.orders[addr].close_now
              /\ Encodable(ev'.orders[addr].chunk_id)
        /\ Created(addr) => addr \in bus_peers' /\ enc'[addr].state = "running"
        /\ (Attempted(addr) /\ addr \in bus_peers)
              => /\ ~Created(addr)
                 /\ enc_queue'[addr] = Append(enc_queue[addr], ev'.orders[addr])
        /\ (Attempted(addr) /\ addr \notin bus_peers /\ ev'.orders[addr].close_now)
              => /\ ~Created(addr)
                 /\ addr \notin bus_peers'
                 /\ enc'[addr] = enc[addr]

\* C5: the socket creates an encoder for an address exactly when its order
\* cannot be delivered because the address is unregistered, the order is not
\* close_now and the chunk is in the chunk index with a range that maps; a
\* delivered order never spawns; a close_now order to an unregistered
\* address creates nothing and registers nothing
C5_LazySpawn == [][C5_Spawn]_vars

C5_SpawnAsStated ==
    ~(datagrams' = datagrams + 1 /\ ev'.panic) =>
        \A addr \in EncoderAddrs :
            Created(addr) <=>
                /\ Attempted(addr)
                /\ addr \notin bus_peers
                /\ ~ev'.orders[addr].close_now

\* C5 as stated, over the steps in which the socket's handler returns: an
\* encoder is created exactly when the order is undeliverable to an
\* unregistered address and not close_now
C5_LazySpawnAsStated == [][C5_SpawnAsStated]_vars

C5_Witness ==
    /\ ev.kind = "datagram"
    /\ \E i \in DOMAIN ev.trace :
          /\ ev.trace[i].outcome = "spawned"
          /\ enc[ev.trace[i].addr].state = "running"
          /\ enc[ev.trace[i].addr].life = 2

C6_Step ==
    /\ (datagrams' = datagrams + 1 /\ ~Authorized(ev'.dgram))
          => /\ enc' = enc
             /\ enc_queue' = enc_queue
             /\ bus_peers' = bus_peers
    /\ \A addr \in EncoderAddrs :
          (Len(enc_queue'[addr]) > Len(enc_queue[addr]) \/ Created(addr))
              => (datagrams' = datagrams + 1 /\ Authorized(ev'.dgram))

\* C6: an order is delivered or an encoder spawned only in the step that
\* handles a Ticket signed by an allow-listed key; a Data packet with
\* GetChunk frames, a ticket of an unknown key and a ticket with an invalid
\* signature leave every encoder, every queue and the registry as they were
C6_Authorization == [][C6_Step]_vars

C6_Witness ==
    /\ ev.kind = "datagram"
    /\ ev.dgram.packet_type = "Data"
    /\ ev.dgram.crc_ok
    /\ ev.dgram.frames[1].frame_type = "GetChunk"
    /\ \E addr \in OrderAddrs(ev.dgram) : enc[addr].state = "running"

\* the encoder at addr leaves its loop in this step
Terminated(addr) == enc[addr].state = "running" /\ enc'[addr].state # "running"

C9_Step ==
    \A addr \in EncoderAddrs :
        LET order_step == ev'.kind = "order" /\ ev'.addr = addr
            poll_step == ev'.kind = "poll" /\ ev'.addr = addr
            idle == now >= enc[addr].last_order_at + EXIT_AFTER
        IN  /\ Terminated(addr) =>
                  \/ order_step /\ Head(enc_queue[addr]).close_now
                  \/ poll_step /\ idle
            /\ (order_step /\ Head(enc_queue[addr]).close_now) => Terminated(addr)
            /\ (poll_step /\ idle) => Terminated(addr)
            /\ Terminated(addr) => addr \notin bus_peers'

C9_State ==
    \A addr \in EncoderAddrs :
        /\ (enc[addr].state = "running") <=> (addr \in bus_peers)
        /\ (enc[addr].state = "running" /\ now >= enc[addr].last_order_at + EXIT_AFTER)
              => timer_poll(enc[addr].timer, now).output = "Close"

\* C9: a running encoder leaves its loop in the step that processes a
\* close_now order, and its timer returns Close at every poll 20 s or more
\* after the last order (or the creation); it leaves for no other reason, and
\* its address is registered exactly while it runs
C9_EncoderLifecycle == [](C9_State) /\ [][C9_Step]_vars

C9_Witness ==
    /\ ev.kind = "poll"
    /\ ev.output = "Close"
    /\ enc[ev.addr].state = "absent"
    /\ enc[ev.addr].life = 1
    /\ ev.addr \notin bus_peers
    /\ now = MaxTime * Second

\* C10 as stated: for one chunk and peer, the frame offsets handed out over
\* the sender's whole run never decrease
C10_FrameOrdering ==
    \A addr \in EncoderAddrs :
        \A i, j \in DOMAIN emitted[addr] :
            i < j => U32Leq(emitted[addr][i].frame_offset, emitted[addr][j].frame_offset)

\* C10: the frame offsets one encoder actor hands out during its life are
\* strictly increasing
C10_FrameOrderingPerActor ==
    \A addr \in EncoderAddrs :
        \A i, j \in DOMAIN emitted[addr] :
            (i < j /\ emitted[addr][i].life = emitted[addr][j].life)
                => U32Lt(emitted[addr][i].frame_offset, emitted[addr][j].frame_offset)

C10_Witness ==
    \E addr \in EncoderAddrs :
        \E i, j \in DOMAIN emitted[addr] :
            /\ i + 1 < j
            /\ emitted[addr][i].life = 1
            /\ emitted[addr][i + 1].life = 1
            /\ emitted[addr][j].life = 2


\* the requests the encoder actor at addr (running, or the last that ran) took
Seen(addr) == enc[addr].taken \cup {enc[addr].started_by}

\* the order the step hands to addr repeats a request already taken there
C11_DuplicateStep ==
    \A addr \in EncoderAddrs :
        /\ (/\ Attempted(addr)
            /\ enc[addr].life >= 1
            /\ Request(ev'.orders[addr]) \in Seen(addr))
              => /\ enc'[addr].state = enc[addr].state
                 /\ enc'[addr].max_frame_offset = enc[addr].max_frame_offset
        /\ (/\ ev'.kind = "order"
            /\ ev'.addr = addr
            /\ Request(ev'.order) \in Seen(addr))
              => /\ enc'[addr].state = enc[addr].state
                 /\ enc'[addr].max_frame_offset = enc[addr].max_frame_offset

OwnRequests(addr) ==
    enc[addr].taken \cup
        (IF U32Carry(enc[addr].started_by.offset_next,
                     enc[addr].started_by.offset_no_more_than) = 0
         THEN {enc[addr].started_by} ELSE {})

C11_RunningStep ==
    \A addr \in EncoderAddrs :
        /\ (/\ enc[addr].state = "running"
            /\ Attempted(addr)
            /\ Request(ev'.orders[addr]) \in OwnRequests(addr))
              => enc'[addr] = enc[addr]
        /\ (/\ enc[addr].state = "running"
            /\ ev'.kind = "order"
            /\ ev'.addr = addr
            /\ Request(ev'.order) \in OwnRequests(addr))
              => /\ enc'[addr].state = "running"
                 /\ enc'[addr].life = enc[addr].life
                 /\ enc'[addr].max_frame_offset = enc[addr].max_frame_offset

Consumers(a) == {i \in interfaces : i.address = a}

C12_Step ==
    bus_ev'.op = "send" /\ bus_sends' = bus_sends + 1 =>
        LET to == bus_ev'.to
            message == bus_ev'.message IN
        /\ Consumers(to) = {} => peers[to] = NoChan
        /\ peers[to] = NoChan =>
              /\ ~bus_ev'.ok
              /\ chan_queue' = chan_queue
              /\ peers' = peers
              /\ bus_ev'.returned = [some |-> TRUE, value |-> message]
        /\ peers[to] # NoChan =>
              /\ bus_ev'.ok
              /\ chan_queue' = [chan_queue EXCEPT ![peers[to]] = Append(@, into(message))]
              /\ \E i \in Consumers(to) : i.receiver = peers[to]
              /\ peers' = peers

\* C12: a send to an address that has no live interface (never registered,
\* or dropped), and more generally to any address absent from the registry,
\* fails, leaves every queue and the registry as they were and hands the
\* original message back; a send to an address present in the registry puts
\* the message at the back of the queue of that address's consumer and
\* succeeds.
C12_SendAbsent == [][C12_Step]_vars

\* a send to an address whose interface was dropped has failed while another
\* address holds a waiting message
C12_Witness ==
    /\ bus_ev.op = "send"
    /\ ~bus_ev.ok
    /\ Consumers(bus_ev.to) = {}
    /\ channels >= 2
    /\ \E ch \in Channels : chan_queue[ch] # <<>>

\* C13: after any sequence of register and drop operations every address
\* has at most one live consumer interface, also when register is called
\* for an address that already has one.
C13_SingleConsumer == \A a \in BusAddrs : Cardinality(Consumers(a)) <= 1

(***************************************************************************)
(* Properties of the timer (SpecTimer)                                     *)
(***************************************************************************)
\* the instant a timer that saw no set_rate call was created at
created_at(timer) == timer.exit_after - EXIT_AFTER

C14_Step ==
    tmr_state' # "none" /\ tmr_calls' = <<>> =>
        /\ tmr_permits' * tmr'.interval <= tmr_now' - created_at(tmr')
        /\ tmr_permits' # tmr_permits =>
              LET k == tmr_permits' - tmr_permits
                  can_send_num == (tmr_now - tmr.last_send) \div tmr.interval IN
              /\ tmr_ev'.op = "poll" /\ tmr_ev'.output = "Send" /\ tmr_ev'.permits = k
              /\ k >= 1 /\ k <= MAX_BURST
              /\ k = MinNat(can_send_num, MAX_BURST)
              /\ timer_poll(tmr', tmr_now').output = "Pending"

\* C14: while the interval I is the one the timer was created with and
\* set_rate has not been called, the permits issued up to time t number at
\* most floor((t - creation time) / I); a poll that returns Send(k) has
\* 1 <= k <= MAX_BURST, and what had accumulated beyond MAX_BURST is gone:
\* a second poll at the same instant issues nothing.
C14_PacingBound == [][C14_Step]_vars

\* a poll has returned Send(MAX_BURST) and discarded a ninth permit
C14_Witness ==
    /\ tmr_state = "live"
    /\ tmr_calls = <<>>
    /\ tmr_ev.op = "poll" /\ tmr_ev.output = "Send" /\ tmr_ev.permits = MAX_BURST
    /\ tmr_permits * tmr.interval < tmr.last_send - created_at(tmr)

(***************************************************************************)
(* Properties of the clock test (SpecClock)                                *)
(***************************************************************************)
\* the controller has sent the intervals of the test so far
TestSchedule ==
    \A k \in 1..Len(tmr_calls) :
        tmr_calls[k].new_interval = SomeInterval(ControllerIntervals[k])

\* the output times the test expects, in milliseconds
ClockExpected ==
    [x \in 1..3 |-> (x - 1) * 900 + 900] \o [x \in 1..20 |-> (x + 2) * 500 + 1700]
        \o [x \in 1..7 |-> (x + 22) * 1500 - 14500] \o <<40000>>

IsPrefix(a, b) == Len(a) <= Len(b) /\ \A n \in 1..Len(a) : a[n] = b[n]

\* the permits pushed so far, without the time of Close
permit_times ==
    IF tmr_state = "closed" THEN SubSeq(sent_times, 1, Len(sent_times) - 1) ELSE sent_times

\* C15 as stated: on the schedule 900 ms, 500 ms at 3 s, 1500 ms at 20 s the
\* permits come at 900, 1800, 2700, then on 3200 + k * 500 until the second
\* change, then on 21200 + k * 1500, and Close comes at 40000.
C15_ScenarioS6AsStated ==
    TestSchedule =>
        /\ \A n \in 1..Len(permit_times) :
              LET t == permit_times[n] IN
              \/ t \in {900, 1800, 2700}
              \/ t >= 3200 /\ t < 20000 /\ (t - 3200) % 500 = 0
              \/ t >= 21200 /\ (t - 21200) % 1500 = 0
        /\ tmr_state = "closed" => sent_times[Len(sent_times)] = 40000

\* C15, amended: on that schedule the permits come at 900, 1800, 2700, then
\* every 500 ms from 3200 to 12700, then every 1500 ms from 20000 to 29000,
\* and Close comes at 40000, when all thirty permits have been issued.
C15_ScenarioS6 ==
    TestSchedule =>
        /\ \A n \in 1..Len(permit_times) :
              LET t == permit_times[n] IN
              \/ n <= 3 /\ t = 900 * n
              \/ n >= 4 /\ n <= 23 /\ t = 3200 + 500 * (n - 4) /\ t <= 12700
              \/ n >= 24 /\ n <= 30 /\ t = 20000 + 1500 * (n - 24) /\ t <= 29000
        /\ tmr_state = "closed" =>
              Len(permit_times) = 30 /\ sent_times[Len(sent_times)] = 40000

\* the test's schedule has run to Close and a permit was issued at 20000
C15_Witness ==
    /\ tmr_state = "closed"
    /\ Len(tmr_calls) = 2 /\ TestSchedule
    /\ \E n \in 1..Len(permit_times) : permit_times[n] = 20000

\* the instant of the most recent rate call, or of the creation
LastCall == IF tmr_calls = <<>> THEN 0 ELSE tmr_calls[Len(tmr_calls)].at

C16_Step ==
    \* a permit is issued within STOP_AFTER of the last call, one at a time,
    \* when it falls due, one interval after the one before
    /\ tmr_permits' # tmr_permits =>
          /\ tmr_now < LastCall + STOP_AFTER
          /\ tmr_permits' = tmr_permits + 1
          /\ tmr'.last_send = tmr.last_send + tmr.interval
          /\ sent_times' = Append(sent_times, rounded(tmr'.last_send))
    \* a rate call that finds last_send older than t - I makes a permit due at t
    /\ tmr_calls' # tmr_calls =>
          LET call == tmr_calls'[Len(tmr_calls')]
              I == call.new_interval.interval IN
          /\ call.at = tmr_now
          /\ tmr'.interval = I
          /\ tmr.last_send < tmr_now - I => tmr'.last_send + I = tmr_now
          /\ tmr.last_send >= tmr_now - I => tmr'.last_send = tmr.last_send
    \* Close comes EXIT_AFTER after the last call
    /\ tmr_state = "live" /\ tmr_state' = "closed" =>
          /\ tmr_now = LastCall + EXIT_AFTER
          /\ sent_times' = Append(sent_times, rounded(LastCall + EXIT_AFTER))
    \* the outputs of the test's schedule
    /\ TestSchedule' =>
          /\ IsPrefix(sent_times', ClockExpected)
          /\ tmr_state' = "closed" => sent_times' = ClockExpected

\* C16: permits are issued only during the 10 s after the most recent rate
\* call or the creation; a rate call Some(I) at t that finds last_send older
\* than t - I makes the next permit due at t, and permits follow one every
\* I; Close is returned 20 s after the most recent rate call.  On the test's
\* schedule the outputs are the ones the test expects: 900, 1800, 2700, every
\* 500 ms from 3200 to 12700, every 1500 ms from 20000 to 29000, Close at
\* 40000.
C16_ClockTest == [][C16_Step]_vars

\* the test's schedule has run to Close with the expected outputs, the
\* controller having run late at its second send
C16_Witness ==
    /\ tmr_state = "closed"
    /\ Len(tmr_calls) = 2 /\ TestSchedule
    /\ tmr_calls[2].at > ControllerTimes[2]
    /\ sent_times = ClockExpected

(***************************************************************************)
(* Properties of the planner (SpecPlan)                                    *)
(***************************************************************************)
offset_of(n) == plan[n][1]
length_of(n) == plan[n][2]

\* C18: for every file length L >= 1 the pairs of make_plan, in order,
\* partition [0, L): the first offset is 0, each offset is the previous
\* offset plus the previous length, every length is at least 1 and the last
\* offset plus the last length is L.
C18_PlanCoverage ==
    file_length >= 1 =>
        /\ Len(plan) >= 1
        /\ offset_of(1) = 0
        /\ \A n \in 2..Len(plan) : offset_of(n) = offset_of(n - 1) + length_of(n - 1)
        /\ \A n \in 1..Len(plan) : length_of(n) >= 1
        /\ offset_of(Len(plan)) + length_of(Len(plan)) = file_length

\* a file of more than two chunks that ends inside a page has been planned
\* and its pairs taken
C18_Witness ==
    /\ file_length > 2 * CHUNK_SIZE
    /\ file_length % DEFAULT_PAGE_SIZE # 0
    /\ plan_taken = Len(plan)

\* C19: for every file length L >= 1 every offset of make_plan is a
\* multiple of the page size, every length but the last is one too, no
\* length exceeds CHUNK_SIZE, and every chunk but the last two has exactly
\* CHUNK_SIZE bytes.
C19_PlanAlignment ==
    file_length >= 1 =>
        /\ \A n \in 1..Len(plan) : offset_of(n) % DEFAULT_PAGE_SIZE = 0
        /\ \A n \in 1..(Len(plan) - 1) : length_of(n) % DEFAULT_PAGE_SIZE = 0
        /\ \A n \in 1..Len(plan) : length_of(n) <= CHUNK_SIZE
        /\ \A n \in 1..(Len(plan) - 2) : length_of(n) = CHUNK_SIZE

\* a plan with full chunks and two tails, the second one byte short of a
\* chunk, has been made
C19_Witness ==
    /\ Len(plan) >= 4
    /\ length_of(Len(plan) - 1) = CHUNK_SIZE
    /\ length_of(Len(plan)) = CHUNK_SIZE - 1

(***************************************************************************)
(* Properties of the ticket codec (SpecCodec)                              *)
(***************************************************************************)
\* the positions of the set_get_chunk calls for a chunk id, and of the
\* set_rate_limit calls
GetChunkCalls(c) ==
    {n \in 1..Len(ticket_calls) : ticket_calls[n][1] = "set_get_chunk" /\ ticket_calls[n][2] = c}
RateLimitCalls == {n \in 1..Len(ticket_calls) : ticket_calls[n][1] = "set_rate_limit"}
CalledChunks ==
    {ticket_calls[n][2] : n \in {m \in 1..Len(ticket_calls) : ticket_calls[m][1] = "set_get_chunk"}}
LatestOf(S) == CHOOSE n \in S : \A m \in S : m <= n

\* the parsed frames are what the calls leave: one GetChunk frame for each
\* chunk id, with the values of the last call for it, and a RateLimit frame
\* with the last rate when a rate was set
RoundTrip(frames) ==
    LET get_chunks(c) == {n \in 1..Len(frames) :
                             frames[n].frame_type = "GetChunk" /\ frames[n].chunk_id = c}
        rate_limits == {n \in 1..Len(frames) : frames[n].frame_type = "RateLimit"}
    IN  /\ \A c \in CalledChunks :
              LET call == ticket_calls[LatestOf(GetChunkCalls(c))] IN
              /\ Cardinality(get_chunks(c)) = 1
              /\ \A n \in get_chunks(c) : frames[n] = GetChunk(c, call[3], call[4])
        /\ \A n \in 1..Len(frames) :
              frames[n].frame_type = "GetChunk" => frames[n].chunk_id \in CalledChunks
        /\ Cardinality(rate_limits) <= 1
        /\ RateLimitCalls = {} <=> rate_limits = {}
        /\ \A n \in rate_limits :
              frames[n] = RateLimit(ticket_calls[LatestOf(RateLimitCalls)][2])
        /\ Len(frames) = Cardinality(CalledChunks) + Cardinality(rate_limits)

\* C20: after any sequence of set_rate_limit and set_get_chunk calls, parse
\* of the built ticket succeeds and yields exactly one GetChunk frame for
\* each distinct chunk id, with the values of the last call for that id,
\* and at most one RateLimit frame, with the last rate set.
C20_TicketRoundTrip ==
    parsed_packet.done =>
        /\ parsed_packet.result.ok
        /\ RoundTrip(parsed_packet.result.frames)

(***************************************************************************)
(* Properties of the local transfer                                        *)
(***************************************************************************)
\* the decoder of chunk c has returned the bytes of the chunk and its
\* address has left the registry
Returned(c) == xf_returned[c] = Some(SourceChunk(c)) /\ c \notin xf_registered

\* decoding::spawn has been called for chunk c
Spawned(c) == xf_pc[c] \notin {"none", "queued"}

\* no step leaves a stalled transfer: the steps taken in it are the
\* ticker's and the sender's drop of a ticket, which let no decoder return
StalledForever ==
    (xf_ev.kind # "init" /\ xf_ev.stalled) => (Stalled /\ xf_ev.kind \in {"tick", "ticket"})

\* C17: over the loss-free, order-preserving paired socket, under any
\* concurrency bound, every decoder spawned for a chunk of the ChunkIndex
\* eventually returns Some(bytes) equal to the source chunk, after which its
\* FrameDecoder address is unregistered.  A decoder that has not returned
\* when the transfer stalls never returns (StalledForever), so the claim
\* requires of every reachable state that the transfer has not stalled
\* with a spawned decoder still to return.
C17_Completion ==
    ~(Stalled /\ \E c \in AllChunks : Spawned(c) /\ ~Returned(c))

\* the small transfers end with every chunk returned and no address left
SmallTransferDone ==
    /\ xf_conf.chunks = SmallChunks
    /\ \A c \in IndexedChunks(xf_conf) : Returned(c)
    /\ xf_registered = {}

(***************************************************************************)
(* Properties of the packets on the wire                                   *)
(***************************************************************************)
\* C22: verify, and so parse_packet, rejects with PacketTooLong every
\* received packet whose total length, verification tail included, exceeds
\* the MTU, in the CRC64 mode and in the Ed25519 mode
C22_OversizeRejection ==
    (parsed_packet.done /\ packet_len(wire.packet) > MTU)
        => (~parsed_packet.result.ok /\ parsed_packet.result.err = "PacketTooLong")

\* C21: every packet put on the wire has a total length, verification tail
\* included, of at most the MTU: the Data packets that carry a symbol of at
\* most DEFAULT_FRAME_LEN bytes, and the Tickets the Reporter of the
\* receiving socket builds for any number of chunks
C21_MTUInvariant ==
    /\ \A n \in 1..Len(xf_to_receiver) : xf_to_receiver[n].packet_len <= MTU
    /\ \A n \in 1..Len(xf_to_sender) : packet_len(xf_to_sender[n]) <= MTU

(***************************************************************************)
(* Properties of the socket actors                                         *)
(***************************************************************************)
\* C23: datagram-level errors stay inside the socket actor: an outgoing
\* datagram whose send_to fails, like an incoming one that fails parsing or
\* verification, never terminates the actor, which keeps processing later
\* datagrams, bus messages and ticks; for the receiving socket: no step
\* takes the actor out of its loop
C23_ErrorsContained ==
    [][rs_running => rs_running']_vars

\* the last datagram asked for an encoder of a chunk whose range
\* mmap_segment rejects
MmapFailed ==
    /\ ev.kind = "datagram"
    /\ \E i \in DOMAIN ev.trace :
          /\ ev.trace[i].addr[2] \in DOMAIN ChunkIndex
          /\ ChunkIndex[ev.trace[i].addr[2]] = "unmappable"
          /\ ev.trace[i].outcome \notin {"delivered", "skipped"}

\* C24: a storage error of the server is per chunk and not fatal: when
\* memory-mapping the range of a requested chunk fails, the chunk is skipped,
\* no encoder is created for it, and the sending socket keeps serving
C24_StorageErrorNonFatal ==
    MmapFailed =>
        /\ ss_running
        /\ SenderSocket \in bus_peers
        /\ \A p \in Peers : FrameEncoder(2, p) \notin bus_peers

\* the chunk ids held by the generations first..last of exiting
ExitingChunks(exiting, first, last) ==
    UNION {DOMAIN exiting[i] : i \in {j \in 1..Len(exiting) : first <= j /\ j <= last}}

\* a step of the ticker branch: the only steps that leave the number of
\* reports alone
TickStep == updates' = updates

\* the ticket of this tick, if any, carries RateLimit 40960 and one GetChunk
\* frame for each chunk id in chunks, and no other
TicketCarries(chunks) ==
    tick_ticket' # NoTicket =>
        /\ tick_ticket'.rate_limit = 40960
        /\ DOMAIN tick_ticket'.get_chunk = chunks
        /\ \A c \in chunks : tick_ticket'.get_chunk[c].chunk_id = c

\* a ticket is sent at a tick exactly when the reporter is non-empty, and
\* never between ticks
TicketIffNonEmpty ==
    /\ TickStep =>
          ((tick_ticket' # NoTicket) <=>
              \/ DOMAIN activate_data # {}
              \/ ExitingChunks(exiting_data, 1, Len(exiting_data)) # {})
    /\ ~TickStep => UNCHANGED <<tick_ticket, tick_sent>>

C25_AllGenerations ==
    /\ TicketIffNonEmpty
    /\ TickStep =>
          TicketCarries(DOMAIN activate_data
                        \cup ExitingChunks(exiting_data, 1, Len(exiting_data)))

\* C25 as stated: the ticket of a tick names every chunk id of active and
\* of all exiting generations held when the tick fires
C25_AsStated == [][C25_AllGenerations]_vars

C25_Step ==
    /\ TicketIffNonEmpty
    /\ TickStep =>
          TicketCarries(DOMAIN activate_data \cup ExitingChunks(exiting_data, 1, 2))

\* C25: at each tick the receiving socket transmits a ticket if and only if
\* the reporter is non-empty; the ticket carries RateLimit 40960 and exactly
\* one GetChunk frame for each chunk id in the union of active and the
\* exiting generations other than the third, which generate drops before it
\* builds the ticket; between ticks no ticket is sent
C25_TicketEmission == [][C25_Step]_vars

\* a ticket that names one chunk and no longer names another, whose
\* generation was dropped at this tick
C25_Witness ==
    /\ tick_ticket # NoTicket
    /\ DOMAIN tick_ticket.get_chunk # {}
    /\ \E c \in ChunkIds :
          /\ promoted[c] /\ since[c] = 4
          /\ c \notin DOMAIN tick_ticket.get_chunk

(***************************************************************************)
(* Properties of the encoder's pacing and orders                           *)
(***************************************************************************)
\* the frames the actor now at addr has handed to the bus
HandedBy(addr) ==
    SelectSeq(emitted[addr], LAMBDA f : f.life = enc[addr].life)

\* max_sent_offset is the offset of the last frame handed to the bus, and 0
\* before the first
C26_State ==
    \A addr \in EncoderAddrs :
        enc[addr].state = "running" =>
            enc[addr].max_sent_offset =
                IF HandedBy(addr) = <<>> THEN U32(0)
                ELSE HandedBy(addr)[Len(HandedBy(addr))].frame_offset

\* a Send(k) of the timer of the encoder at addr
C26_Step ==
    \A addr \in EncoderAddrs :
        (ev'.kind = "poll" /\ ev'.addr = addr /\ ev'.output = "Send") =>
            LET k == timer_poll(enc[addr].timer, now).permits
                out == ev'.out
            IN  /\ Len(out) <= k
                /\ U32Leq(enc[addr].max_frame_offset, enc[addr].max_sent_offset)
                      => out = <<>>
                /\ \A i \in 2..Len(out) :
                      ~U32Leq(enc[addr].max_frame_offset, out[i - 1])
                /\ \A i \in DOMAIN out :
                      out[i] = U32Add(enc[addr].next_frame_offset, U32(i - 1))
                /\ ss_queue' = ss_queue \o
                       [i \in DOMAIN out |->
                           [to |-> addr[3], chunk_id |-> addr[2], frame_offset |-> out[i]]]

\* C26: on a pacing output Send(k) the encoder emits at most k data frames,
\* each from one next_frame() call and sent to SenderSocket tagged with the
\* encoder's peer address and chunk_id, and none in a state where
\* max_sent_offset >= max_frame_offset; max_sent_offset always equals the
\* frame_offset of the last frame handed to the bus (0 before the first)
C26_EncoderEmission == [](C26_State) /\ [][C26_Step]_vars

\* a Send that handed frames to the bus and stopped at max_frame_offset
\* with permits left
C26_Witness ==
    /\ ev.kind = "poll" /\ ev.output = "Send"
    /\ Len(ev.out) >= 1 /\ Len(ev.out) < MAX_BURST
    /\ enc[ev.addr].state = "running"
    /\ enc[ev.addr].max_sent_offset = ev.out[Len(ev.out)]
    /\ U32Leq(enc[ev.addr].max_frame_offset, enc[ev.addr].max_sent_offset)

\* the encoder at addr processes the order at the head of its queue
C27_Order(addr) ==
    LET order == Head(enc_queue[addr])
        e == enc[addr]
    IN  /\ Terminated(addr) <=> order.close_now
        /\ ~order.close_now =>
              /\ enc'[addr].max_frame_offset =
                    (IF U32Lt(e.max_frame_offset, order.offset_no_more_than)
                     THEN order.offset_no_more_than ELSE e.max_frame_offset)
              /\ enc'[addr].timer.interval =
                    (IF order.sending_interval.some
                     THEN order.sending_interval.interval ELSE e.timer.interval)
              /\ enc'[addr].next_frame_offset = e.next_frame_offset
              /\ enc'[addr].max_sent_offset = e.max_sent_offset

C27_Step ==
    \A addr \in EncoderAddrs :
        /\ (ev'.kind = "order" /\ ev'.addr = addr) => C27_Order(addr)
        /\ (enc[addr].state = "running" /\ enc'[addr].state = "running"
                /\ enc'[addr].life = enc[addr].life)
              => U32Leq(enc[addr].max_frame_offset, enc'[addr].max_frame_offset)

\* C27: processing a SendingOrder sets max_frame_offset to the maximum of
\* its value and the order's offset_no_more_than, so that it never decreases
\* during an encoder's life; the order's sending_interval replaces the timer
\* interval only when present; offset_next of a later order neither rewinds
\* nor advances the symbol position; the actor leaves the loop if and only
\* if the order has close_now
C27_OrderHandling == [][C27_Step]_vars

\* an order without an interval and with a larger offset_no_more_than was
\* processed by an encoder paced by a ticket's rate limit
C27_Witness ==
    /\ ev.kind = "order"
    /\ ~ev.order.close_now
    /\ ~ev.order.sending_interval.some
    /\ enc[ev.addr].state = "running"
    /\ enc[ev.addr].timer.interval # DefaultInterval
    /\ enc[ev.addr].max_frame_offset = ev.order.offset_no_more_than
    /\ enc[ev.addr].started_by.offset_next # ev.order.offset_next

\* the encoder at addr tries to hand a frame to a SenderSocket that is no
\* longer registered
SendFails(addr) ==
    /\ ev'.kind = "poll" /\ ev'.addr = addr /\ ev'.output = "Send"
    /\ SenderSocket \notin bus_peers
    /\ ~U32Leq(enc[addr].max_frame_offset, enc[addr].max_sent_offset)

\* C28: a running encoder moves to Closed when sending a data frame to
\* SenderSocket fails, as it does on a close_now order and on the timer's
\* Close
C28_CloseOnSendFailure ==
    [][\A addr \in EncoderAddrs : SendFails(addr) => Terminated(addr)]_vars

(***************************************************************************)
(* Properties of the timer's branches (SpecTimer)                          *)
(***************************************************************************)
\* a poll of the live timer: the output and the permits are in tmr_ev'
PollStep == tmr_state = "live" /\ tmr_ev'.op = "poll"

C29_Step ==
    PollStep =>
        /\ (tmr_now < tmr.sleep_after /\ tmr_now >= tmr.last_send + tmr.interval) =>
              LET k == (tmr_now - tmr.last_send) \div tmr.interval IN
              /\ tmr_ev'.output = "Send"
              /\ tmr_ev'.permits = MinNat(k, 8)
              /\ tmr'.last_send = tmr.last_send + k * tmr.interval
        /\ (tmr_now < tmr.exit_after /\ tmr_now < tmr.last_send + tmr.interval) =>
              /\ tmr_ev'.output = "Pending"
              /\ tmr'.last_send = tmr.last_send

\* C29: a poll at a time now with now < sleep_after and
\* now >= last_send + interval computes k = floor((now - last_send) / interval),
\* advances last_send by k * interval and returns Send(min(k, 8)); a poll
\* with now < last_send + interval returns pending and leaves last_send
\* unchanged
C29_SendBranch == [][C29_Step]_vars

C30_Step ==
    PollStep =>
        /\ tmr_now >= tmr.exit_after =>
              /\ tmr_ev'.output = "Close"
              /\ tmr_state' = "closed"
              /\ tmr_permits' = tmr_permits
        /\ (tmr.sleep_after <= tmr_now /\ tmr_now < tmr.exit_after) =>
              /\ tmr_ev'.output = "Pending"
              /\ tmr_permits' = tmr_permits
              /\ tmr'.last_send = tmr.last_send
              /\ tmr_state' = "live"
        /\ tmr_ev'.output = "Send" => tmr_now < tmr.sleep_after

\* C30: every poll at a time now >= exit_after returns Close, even when
\* permits are due; every poll with sleep_after <= now < exit_after returns
\* pending, issues no permit and leaves last_send unchanged; no Send is
\* returned at or after sleep_after
C30_CloseAndSleep == [][C30_Step]_vars

\* the timer returned Close at a time when permits were due
C30_Witness ==
    /\ tmr_state = "closed"
    /\ tmr_ev.op = "poll" /\ tmr_ev.output = "Close"
    /\ tmr_now >= tmr.exit_after
    /\ tmr_now > tmr.last_send + 2 * tmr.interval
    /\ tmr_permits >= 1

\* a set_rate call: its arguments are the last entry of tmr_calls'
C31_Step ==
    (tmr_state = "live" /\ tmr_ev'.op = "set_rate") =>
        LET call == tmr_calls'[Len(tmr_calls')]
            I == call.new_interval.interval
        IN  /\ call.at = tmr_now
            /\ call.new_interval.some =>
                  /\ tmr'.interval = I
                  /\ tmr'.last_send =
                        (IF tmr.last_send >= tmr_now - I THEN tmr.last_send ELSE tmr_now - I)
                  /\ timer_poll(tmr', tmr_now).permits <= 1
            /\ tmr'.sleep_after >= tmr_now + 10 * Second
            /\ tmr'.exit_after >= tmr_now + 20 * Second
            /\ tmr'.sleep_after >= tmr.sleep_after
            /\ tmr'.exit_after >= tmr.exit_after
            /\ tmr_woken'

\* C31: set_rate(now, Some(I)) replaces the interval by I and sets last_send
\* to max(last_send, now - I), so that a poll at the same instant yields at
\* most one permit; every set_rate call moves sleep_after to at least
\* now + 10 s and exit_after to at least now + 20 s, moves neither deadline
\* earlier, and wakes a pending poll
C31_RateChange == [][C31_Step]_vars

\* set_rate with a new interval has raised last_send of a timer that had
\* permits due
C31_Witness ==
    /\ tmr_state = "live"
    /\ tmr_ev.op = "set_rate"
    /\ tmr_calls[Len(tmr_calls)].new_interval.some
    /\ tmr.interval = tmr_calls[Len(tmr_calls)].new_interval.interval
    /\ tmr_now >= RateGrid
    /\ tmr.last_send = tmr_now - tmr.interval
    /\ tmr.sleep_after = tmr_now + STOP_AFTER

(***************************************************************************)
(* Properties of parse_packet on bytes (SpecRaw)                           *)
(***************************************************************************)
\* the body, read frame by frame from its first byte, holds a frame with an
\* unknown frame_type or with a frame_length below the common frame header,
\* beyond the bytes that remain, or other than the length of a GetChunk or
\* RateLimit frame
RECURSIVE HasBadFrame(_)
HasBadFrame(body) ==
    /\ Len(body) >= CommonFrameHeader_raw_len
    /\ LET frame_type == body[1]
           frame_length == body[2] * 256 + body[3]
       IN  \/ frame_type \notin {FrameType_Data, FrameType_GetChunk, FrameType_RateLimit}
           \/ frame_length < CommonFrameHeader_raw_len
           \/ frame_length > Len(body)
           \/ frame_type = FrameType_GetChunk /\ frame_length # 15
           \/ frame_type = FrameType_RateLimit /\ frame_length # 7
           \/ HasBadFrame(SubSeq(body, frame_length + 1, Len(body)))

\* C32: parse_packet returns a parse error, and never fails abnormally, for
\* every packet whose body contains a frame with an unknown frame_type or an
\* inconsistent frame_length: smaller than the common frame header, larger
\* than the bytes remaining in the body, or not matching the fixed layout of
\* a GetChunk or RateLimit frame
C32_FrameLengthValidation ==
    (raw_result.done /\ HasBadFrame(raw_body)) => raw_result.result.outcome = "Err"

(***************************************************************************)
(* Properties of the receiver's routing (SpecDecoder)                      *)
(***************************************************************************)
\* the receiving socket routes the data frame of a parsed datagram
C33_Step ==
    dec_delivered' = dec_delivered + 1 =>
        LET c == dec_routed'.chunk_id
            frame == dec_routed'.frame
        IN  /\ dec_registered[c] =>
                  dec_queue' = [dec_queue EXCEPT ![c] = Append(@, frame)]
            /\ ~dec_registered[c] => dec_queue' = dec_queue
            /\ UNCHANGED <<dec_pc, dec_registered, dec_decoder, rsock_registered, rs_inbox>>
            /\ UNCHANGED reporterVars

\* C33: each Data frame of a parsed datagram is enqueued on the queue of
\* FrameDecoder(frame.chunk_id) and on no other queue; when no decoder is
\* registered for that chunk_id the frame is dropped with no other effect:
\* no decoder is created, the reporter is unchanged and the receiving socket
\* continues
C33_ReceiverRouting == [][C33_Step]_vars

\* a frame for chunk 1 is queued for its decoder, and the frame routed last,
\* for chunk 2, found no decoder and left no trace
C33_Witness ==
    /\ dec_routed.chunk_id = 2
    /\ dec_pc[2] = "none" /\ ~dec_registered[2] /\ dec_queue[2] = <<>>
    /\ dec_registered[1] /\ dec_queue[1] # <<>>
    /\ rsock_registered

(***************************************************************************)
(* Properties of the orders derived from a ticket (SpecSender)             *)
(***************************************************************************)
\* the positions of the RateLimit frames of the datagram handled last
RateLimitAt ==
    {i \in DOMAIN ev.dgram.frames : ev.dgram.frames[i].frame_type = "RateLimit"}

\* C34: every SendingOrder derived from a Ticket that contains a RateLimit
\* frame carries the sending_interval derived from that frame,
\* 8 ms * (MTU + 20) / rate_kbps, whatever the position of the RateLimit
\* frame among the packet's frames; the orders of a ticket without a
\* RateLimit frame carry no interval
C34_SingleInterval ==
    (ev.kind = "datagram" /\ ev.derived) =>
        \A addr \in DOMAIN ev.orders :
            IF RateLimitAt = {}
            THEN ~ev.orders[addr].sending_interval.some
            ELSE \E i \in RateLimitAt :
                    /\ ev.orders[addr].sending_interval.some
                    /\ ev.orders[addr].sending_interval.interval
                          = (8000 * (MTU + 20)) \div ev.dgram.frames[i].desired_max_kbps

(***************************************************************************)
(* Properties of stale interfaces (SpecBus)                                *)
(***************************************************************************)
\* the interface earlier is dropped in this step while later, registered
\* after it for the same address, is alive and is the one the registry names
StaleDrop(earlier, later) ==
    /\ earlier \in interfaces /\ later \in interfaces
    /\ earlier.address = later.address
    /\ earlier.receiver < later.receiver
    /\ peers[later.address] = later.receiver
    /\ bus_ev'.op = "drop"
    /\ interfaces' = interfaces \ {earlier}

\* C35: if register(addr) is called while an earlier interface for addr is
\* alive, dropping the earlier interface does not unregister the later one:
\* send(addr, msg) keeps succeeding and reaching the later consumer for as
\* long as the later interface is alive
C35_StaleDrop ==
    [][\A earlier, later \in interfaces :
          StaleDrop(earlier, later) =>
              /\ later \in interfaces'
              /\ peers'[later.address] = later.receiver]_vars

(***************************************************************************)
(* Properties of the receive window (SpecSender)                           *)
(***************************************************************************)
\* frame_offset does not exceed next_receive_offset + receive_window_frames
\* of the GetChunk frame, the sum taken without wrapping
WithinWindow(frame_offset, get_chunk) ==
    \/ U32Carry(get_chunk.next_receive_offset, get_chunk.receive_window_frames) # 0
    \/ U32Leq(frame_offset,
              U32Add(get_chunk.next_receive_offset, get_chunk.receive_window_frames))

\* C36: an encoder never emits a data frame whose frame_offset exceeds the
\* largest next_receive_offset + receive_window_frames over all GetChunk
\* frames the sender has processed for that chunk and peer, the frame of the
\* ticket that created the encoder included
C36_WindowBound ==
    \A addr \in EncoderAddrs :
        \A i \in DOMAIN emitted[addr] :
            \E get_chunk \in asked[addr] :
                WithinWindow(emitted[addr][i].frame_offset, get_chunk)

\* the encoder e has sent up to its max_frame_offset and sends no more
Blocked(e) == e.state = "running" /\ U32Leq(e.max_frame_offset, e.max_sent_offset)

\* the frames of the encoder at addr were all lost: the receiver, whose
\* decoder is where it was, sends the GetChunk frame that created the
\* encoder again, and the encoder takes the order derived from it
RepeatedOrder(addr) ==
    /\ ev'.kind = "order" /\ ev'.addr = addr
    /\ ~ev'.order.close_now
    /\ Request(ev'.order) = enc[addr].started_by
    /\ enc[addr].state = "running"

\* C37: while a decoder is incomplete and its encoder is alive, if every
\* frame the encoder emitted up to its max_frame_offset was lost, then once
\* tickets are delivered again the encoder emits further frames: the
\* transfer does not stay blocked with max_sent_offset >= max_frame_offset
\* while tickets for the chunk keep arriving; the order of such a ticket
\* leaves the encoder able to send
C37_StallRecovery ==
    [][\A addr \in EncoderAddrs :
          (Blocked(enc[addr]) /\ RepeatedOrder(addr)) => ~Blocked(enc'[addr])]_vars

(***************************************************************************)
(* Properties of the reporter once the decoders are gone (SpecReporter)    *)
(***************************************************************************)
\* every decoder has terminated and none is spawned: no report has reached
\* the reporter during the last four ticker periods, the time after which a
\* Finished chunk has left the last exiting generation
Silent == \A c \in ChunkIds : since[c] >= 4

\* C38: once every decoder actor has terminated and no new decoder is
\* spawned, the reporter becomes empty and the receiving socket stops
\* sending tickets, so that no chunk is requested forever
C38_TicketsStop ==
    (rs_running /\ Silent) => is_empty(activate_data, exiting_data)


\* ---------------------------------------------------------------------
\* Properties of the encoder actors of one address (SpecSender)
\* ---------------------------------------------------------------------

\* the actor of addr is alive: it has been constructed and has not left
\* its loop
Alive(addr) == enc[addr].state = "running"

C39_Step ==
    \A addr \in EncoderAddrs :
        Created(addr) =>
            /\ ~Alive(addr)
            /\ addr \notin bus_peers
            /\ enc_queue[addr] = <<>>

\* C39: at any time at most one encoder actor is alive for one
\* FrameEncoder(chunk_id, peer): every step that constructs an actor for the
\* address starts where the previous actor of the address has left its loop,
\* its address is unregistered and its queue is gone, whatever the order of
\* tickets, constructions, close_now orders and idle timeouts
C39_SingleEncoder == [][C39_Step]_vars

C39_Witness ==
    \E addr \in EncoderAddrs :
        /\ ev.kind = "datagram"
        /\ Alive(addr)
        /\ enc[addr].life = 2
        /\ \E i \in DOMAIN ev.trace :
              ev.trace[i].addr = addr /\ ev.trace[i].outcome = "spawned"

\* the last step handled a verified ticket
VerifiedTicket ==
    /\ ev.kind = "datagram"
    /\ parse_packet(ev.dgram).ok
    /\ ev.dgram.packet_type = "Ticket"

\* the handling of the last datagram failed in a construction of an encoder
SpawnFailed == \E i \in DOMAIN ev.trace : ev.trace[i].outcome = "panic"

\* C40: whatever the desired_max_kbps of the RateLimit frames of a verified
\* ticket, 0 included, the orders are derived, the sending socket keeps
\* running (a failed construction of an encoder aside) and every GetChunk
\* frame of the ticket has its order handled
C40_RateLimitRobust ==
    VerifiedTicket =>
        /\ ev.derived
        /\ ss_running \/ SpawnFailed
        /\ ss_running =>
              \A addr \in EncoderAddrs :
                  GetChunksFor(ev.dgram, addr) # {} =>
                      \E i \in DOMAIN ev.trace : ev.trace[i].addr = addr

====
